---- MODULE Spec2Model ----
(***************************************************************************)
(* Model of the completion-and-gating pipeline of the Steam game data      *)
(* cleaner ("Data preprocessing/data_cleaner.py", class SteamDataCleaner). *)
(*                                                                         *)
(* A cell of the data frame is a tagged value: null (None / NaN), text     *)
(* (a sequence of one-character strings, so that strip(), lower() and      *)
(* float() are computed and not assumed) or a number.  The columns of the  *)
(* data frame are named here by their field type, the values of            *)
(* self.critical_fields; the source names them by the keys of that dict.   *)
(***************************************************************************)
EXTENDS Integers, Sequences, FiniteSets, TLC

VARIABLES
    cval,        \* is_field_missing: the argument `value`
    ctype,       \* is_field_missing: the argument `field_type`
    cres,        \* is_field_missing: <<>> before the call, then <<returned bool>>
    pc,          \* clean_data: "idle", "start", "analysis", "loop" (line 633), "done", "aborted" or "crashed"
    ml_models,   \* self.ml_models: the targets that have a loaded model
    nrows,       \* len(df)
    df,          \* the rows of df iterated so far, as their iteration left them
    dropped,     \* the list of dropped indexes (line 629)
    completed,   \* the count of completed records (line 630)
    last,        \* the local variables of the loop body after its latest iteration
    events,      \* clean_data: the requests.get and time.sleep calls of the run so far, in order
    has_missing, \* clean_data: the has_missing flag of each record of the analysis loop (line 606)
    columns,     \* clean_data: df.columns, the columns of the input file
    run,         \* clean_data: 1 in a first run, 2 in a run on the output of the first
    pending,     \* clean_data: the rows of the input file of a second run
    call_missing,  \* fetch_missing_data: the argument `missing_fields`
    call_world,    \* fetch_missing_data: what the collaborators answer
    call_result,   \* fetch_missing_data: <<>> before the call, then <<its outcome>>
    lookup_name,   \* a lookup: "store", "steamspy" or "steamcharts" ("" when idle)
    max_retries,   \* get_game_details: the argument `max_retries`
    attempt,       \* get_game_details: the loop variable `attempt`
    requests,      \* a lookup: the responses to its requests.get calls, in order
    waits,         \* a lookup: the arguments of its time.sleep calls, in order
    answer,        \* a lookup: <<>> while it runs, then <<what it returned>>
    ref,           \* train_all_models: the reference set, per target the rows of each kind
    trained,       \* train_all_models: how many targets the loop of line 289 has passed
    models,        \* PlayerCountPredictor.models: the targets with a ModelEntry
    frow,          \* feature extraction: the record
    now,           \* feature extraction: the year of the clock, datetime.now().year
    fvecs,         \* feature extraction: the calls made so far and what they returned
    est_row,       \* estimate_player_fields: the argument `df_row`
    est_missing,   \* estimate_player_fields: the argument `missing_fields`
    est_pc,        \* estimate_player_fields: "idle", "start", "peak_24h", "current_players", "peak_alltime", "done" or "raised"
    features_dict, \* estimate_player_fields: the local `features_dict` (<<>> before line 368)
    est_data,      \* estimate_player_fields: the dict of estimates it builds and returns
    predictions,   \* estimate_player_fields: the predict calls made, each with the vector it was given
    results,       \* train_model: <<>>, then per candidate its test_mae and cv_mae (line 211)
    best_model_name  \* train_model: <<>>, then <<the name chosen at line 228>>

classifyVars == <<cval, ctype, cres>>
estimateVars == <<est_row, est_missing, est_pc, features_dict, est_data, predictions>>
selectVars == <<results, best_model_name>>
laterVars == <<estimateVars, selectVars>>
cleanVars == <<pc, ml_models, nrows, df, dropped, completed, last, events>>
runVars == <<columns, run, pending, has_missing>>
fetchVars == <<call_missing, call_world, call_result>>
lookupVars == <<lookup_name, max_retries, attempt, requests, waits, answer>>
trainerVars == <<ref, trained, models>>
featureVars == <<frow, now, fvecs>>
otherVars == <<runVars, fetchVars, lookupVars, trainerVars, featureVars, laterVars>>

vars == <<classifyVars, cleanVars, otherVars>>

----------------------------------------------------------------------------
(* Bounds of the model *)

\* numbers stored in a cell range over -1 .. MaxNum (and the scenario's 50)
MaxNum == 1
\* a batch holds 1 .. MaxBatch records
MaxBatch == 2
\* datetime.now().year
CurrentYear == 2026

----------------------------------------------------------------------------
(* Cell values *)

Null == [k |-> "null", s |-> <<>>, n |-> 0]
Str(t) == [k |-> "str", s |-> t, n |-> 0]
Num(i) == [k |-> "num", s |-> <<>>, n |-> i]

\* self.critical_fields (the values of the dict, in insertion order)
critical_fields ==
    <<"release_date", "price", "playtime_avg", "playtime_median",
      "current_players", "peak_24h", "peak_alltime">>

FieldTypes ==
    {"release_date", "price", "playtime_avg", "playtime_median",
     "current_players", "peak_24h", "peak_alltime"}

\* the list literal of line 166
numeric_fields ==
    {"current_players", "peak_24h", "peak_alltime", "playtime_avg", "playtime_median"}

\* player_fields of clean_data (line 673)
player_fields == <<"current_players", "peak_24h", "peak_alltime">>
Targets == {"current_players", "peak_24h", "peak_alltime"}

----------------------------------------------------------------------------
(* Lists and dicts *)

InSeq(x, q) == \E i \in 1..Len(q) : q[i] = x
SeqSet(q) == {q[i] : i \in 1..Len(q)}

\* [x for x in q if x in keep], in the order of q
Filter(q, keep) == SelectSeq(q, LAMBDA x : x \in keep)

\* a dict is a function on its keys; {} is the empty function
EmptyDict == <<>>
\* for k, v in d.items(): row[k] = v
Update(row, d) == [f \in DOMAIN row |-> IF f \in DOMAIN d THEN d[f] ELSE row[f]]

----------------------------------------------------------------------------
(* Text: str.strip(), str.lower(), float(str) *)

UpperChars ==
    <<"A","B","C","D","E","F","G","H","I","J","K","L","M",
      "N","O","P","Q","R","S","T","U","V","W","X","Y","Z">>
LowerChars ==
    <<"a","b","c","d","e","f","g","h","i","j","k","l","m",
      "n","o","p","q","r","s","t","u","v","w","x","y","z">>
DigitChars == <<"0","1","2","3","4","5","6","7","8","9">>
Whitespace == {" ", "\t"}

LowerChar(c) ==
    IF \E i \in 1..26 : UpperChars[i] = c
    THEN LowerChars[CHOOSE i \in 1..26 : UpperChars[i] = c]
    ELSE c

\* str.lower()
Lower(t) == [i \in 1..Len(t) |-> LowerChar(t[i])]

Least(S) == CHOOSE i \in S : \A j \in S : i <= j
Greatest(S) == CHOOSE i \in S : \A j \in S : j <= i

StripKeep(t, keep) ==
    IF keep = {} THEN <<>> ELSE SubSeq(t, Least(keep), Greatest(keep))

\* str.strip()
Strip(t) == StripKeep(t, {i \in 1..Len(t) : t[i] \notin Whitespace})

IsDigit(c) == \E i \in 1..10 : DigitChars[i] = c
DigitVal(c) == (CHOOSE i \in 1..10 : DigitChars[i] = c) - 1

RECURSIVE DigitsVal(_)
DigitsVal(t) ==
    IF t = <<>> THEN 0
    ELSE 10 * DigitsVal(SubSeq(t, 1, Len(t) - 1)) + DigitVal(t[Len(t)])

RECURSIVE Pow10(_)
Pow10(e) == IF e = 0 THEN 1 ELSE 10 * Pow10(e - 1)

TxtNan == <<"n","a","n">>
TxtInf == <<"i","n","f">>
TxtInfinity == <<"i","n","f","i","n","i","t","y">>

\* a float: the value num/den, negated when neg; or NaN; or an infinity; ok is
\* FALSE when the conversion that was to give it raised
Float(ok, nan, inf, neg, num, den) ==
    [ok |-> ok, nan |-> nan, inf |-> inf, neg |-> neg, num |-> num, den |-> den]
NoFloat == Float(FALSE, FALSE, FALSE, FALSE, 0, 1)
NanFloat == Float(TRUE, TRUE, FALSE, FALSE, 0, 1)
NumFloat(i) == Float(TRUE, FALSE, FALSE, i < 0, IF i < 0 THEN 0 - i ELSE i, 1)

\* digits with a decimal point at position d (Len + 1 when there is none)
ParseDecimal(body, neg, d) ==
    Float(TRUE, FALSE, FALSE, neg,
          DigitsVal(SubSeq(body, 1, d - 1) \o SubSeq(body, d + 1, Len(body))),
          Pow10(IF d > Len(body) THEN 0 ELSE Len(body) - d))

ParseDigits(body, neg, dots) ==
    IF /\ Cardinality(dots) <= 1
       /\ \A i \in 1..Len(body) : i \in dots \/ IsDigit(body[i])
       /\ \E i \in 1..Len(body) : IsDigit(body[i])
    THEN ParseDecimal(body, neg, IF dots = {} THEN Len(body) + 1 ELSE Least(dots))
    ELSE NoFloat

ParseBody(body, lower, neg) ==
    IF lower = TxtNan THEN NanFloat
    ELSE IF lower \in {TxtInf, TxtInfinity} THEN Float(TRUE, FALSE, TRUE, neg, 1, 1)
    ELSE ParseDigits(body, neg, {i \in 1..Len(body) : body[i] = "."})

ParseUnsigned(body, neg) == ParseBody(body, Lower(body), neg)

ParseSigned(s) ==
    ParseUnsigned(IF s # <<>> /\ s[1] \in {"+", "-"} THEN SubSeq(s, 2, Len(s)) ELSE s,
                  s # <<>> /\ s[1] = "-")

\* float(text): optional surrounding whitespace, optional sign, then nan, inf,
\* infinity (any case) or digits with at most one decimal point.  (Exponents
\* and digit-group underscores are not in the texts the model draws.)
ParseFloat(t) == ParseSigned(Strip(t))

\* float(value) for a cell value that is not null
ToFloat(v) == IF v.k = "str" THEN ParseFloat(v.s) ELSE NumFloat(v.n)

----------------------------------------------------------------------------
(* Field Classifier *)

TxtEmpty == <<>>
TxtNA == <<"N","/","A">>
TxtNaLower == <<"n","/","a">>
TxtFree == <<"F","r","e","e">>
TxtComingSoon == <<"C","o","m","i","n","g"," ","S","o","o","n">>
TxtTBA == <<"T","B","A">>

\* a variant of the numeric rule that forgets that zero means missing
NumericMissingZeroOk(f, field_type) ==
    field_type \in numeric_fields /\ (IF f.ok THEN f.nan ELSE TRUE)

\* lines 166-173, f being float(value): num_value == 0 or NaN, True when
\* float(value) raised, False for a field that is no numeric count
NumericMissing(f, field_type) ==
    /\ field_type \in numeric_fields
    /\ IF f.ok THEN (f.num = 0 /\ ~f.inf /\ ~f.nan) \/ f.nan ELSE TRUE

\* a variant that takes a price of 'N/A', 'Free' or '' for missing
TextMissingFreeMissing(s, lower, field_type) ==
    IF s = TxtEmpty \/ lower = TxtNaLower \/ lower = TxtNan THEN TRUE
    ELSE IF field_type = "release_date" /\ s \in {TxtNA, TxtComingSoon, TxtTBA} THEN TRUE
    ELSE IF field_type = "price" /\ s \in {TxtNA, TxtFree, TxtEmpty} THEN TRUE
    ELSE NumericMissing(ParseFloat(s), field_type)

\* a variant in which the price rule of line 162 is tried before the
\* placeholder rule of line 158
TextMissingPriceFirst(s, lower, field_type) ==
    IF field_type = "price" /\ s \in {TxtNA, TxtFree, TxtEmpty} THEN FALSE
    ELSE IF s = TxtEmpty \/ lower = TxtNaLower \/ lower = TxtNan THEN TRUE
    ELSE IF field_type = "release_date" /\ s \in {TxtNA, TxtComingSoon, TxtTBA} THEN TRUE
    ELSE NumericMissing(ParseFloat(s), field_type)

\* lines 157-171 for text, s being value.strip() and lower being s.lower()
TextMissing(s, lower, field_type) ==
    IF s = TxtEmpty \/ lower = TxtNaLower \/ lower = TxtNan THEN TRUE
    ELSE IF field_type = "release_date" /\ s \in {TxtNA, TxtComingSoon, TxtTBA} THEN TRUE
    ELSE IF field_type = "price" /\ s \in {TxtNA, TxtFree, TxtEmpty} THEN FALSE
    ELSE NumericMissing(ParseFloat(s), field_type)

StrippedMissing(s, field_type) == TextMissing(s, Lower(s), field_type)

\* SteamDataCleaner.is_field_missing(value, field_type)
is_field_missing(value, field_type) ==
    IF value.k = "null" THEN TRUE                      \* pd.isna(value) or None
    ELSE IF value.k = "str" THEN StrippedMissing(Strip(value.s), field_type)
    ELSE NumericMissing(NumFloat(value.n), field_type)

----------------------------------------------------------------------------
(* Heuristic Estimator *)

\* re.search(r'(\d{4})', text): the first four consecutive digits, 0 when none
YearAt(t, hits) == IF hits = {} THEN 0 ELSE DigitsVal(SubSeq(t, Least(hits), Least(hits) + 3))
YearOf(t) ==
    YearAt(t, {i \in 1..(Len(t) - 3) : \A j \in 0..3 : IsDigit(t[i + j])})

AgeOfYear(year) ==
    IF year = 0 THEN 0 ELSE IF CurrentYear - year > 0 THEN CurrentYear - year ELSE 0

\* lines 449-459: the age of the game, 0 when the release date holds no year.
\* (A release date is null or text in every row the model draws.)
SimpleGameAge(release_date) ==
    IF release_date.k = "str"
          /\ release_date.s # TxtEmpty
          /\ release_date.s \notin {TxtNA, TxtComingSoon, TxtTBA}
    THEN AgeOfYear(YearOf(release_date.s))
    ELSE 0

\* a variant with the decay factors of the youngest and the oldest band swapped
DecayTenthsSwapped(age) == IF age <= 2 THEN 2 ELSE IF age <= 5 THEN 5 ELSE 8

\* lines 462-470, each factor in tenths: 0.8 and 1.3, 0.5 and 2.0, 0.2 and 3.5
DecayTenths(age) == IF age <= 2 THEN 8 ELSE IF age <= 5 THEN 5 ELSE 2
AlltimeTenths(age) == IF age <= 2 THEN 13 ELSE IF age <= 5 THEN 20 ELSE 35

\* float(df_row.get(column, 0) or 0): NaN stays NaN, '' and 0 give 0.0, other
\* text is parsed and may raise ValueError (ok = FALSE)
FloatOrZero(v) ==
    IF v.k = "null" THEN NanFloat
    ELSE IF v.k = "str" /\ v.s = TxtEmpty THEN NumFloat(0)
    ELSE ToFloat(v)

\* x > 0 for a float
Positive(f) == f.ok /\ ~f.nan /\ ~f.neg /\ f.num > 0

\* int(x / (tenths / 10)) and int(x * (tenths / 10)) for a finite x > 0: the
\* quotient and the product truncated toward zero
IntDiv(f, tenths) == (f.num * 10) \div (f.den * tenths)
IntMul(f, tenths) == (f.num * tenths) \div (f.den * 10)

\* a variant that derives a missing peak_24h from peak_alltime first
SimplePeak24hAlltimeFirst(missing_fields, decay, alltime, cp, p24, pa) ==
    IF InSeq("peak_24h", missing_fields) /\ Positive(pa)
    THEN NumFloat(IntDiv(pa, alltime))
    ELSE IF InSeq("peak_24h", missing_fields) /\ Positive(cp)
    THEN NumFloat(IntDiv(cp, decay))
    ELSE p24

\* lines 478-484: the local peak_24h after the first estimate
SimplePeak24h(missing_fields, decay, alltime, cp, p24, pa) ==
    IF InSeq("peak_24h", missing_fields) /\ Positive(cp)
    THEN NumFloat(IntDiv(cp, decay))
    ELSE IF InSeq("peak_24h", missing_fields) /\ Positive(pa)
    THEN NumFloat(IntDiv(pa, alltime))
    ELSE p24

\* lines 478-490: the estimates, peak_24h being the local of that name after
\* line 484; `guarded` are the targets written only when they are missing
SimpleData(missing_fields, decay, alltime, cp, pa, peak_24h, guarded) ==
    [t \in {u \in Targets :
              \/ u = "peak_24h" /\ InSeq(u, missing_fields)
                   /\ (Positive(cp) \/ Positive(pa))
              \/ u # "peak_24h" /\ (u \notin guarded \/ InSeq(u, missing_fields))
                   /\ Positive(peak_24h)} |->
        IF t = "peak_24h" THEN Num(peak_24h.num)
        ELSE IF t = "current_players" THEN Num(IntMul(peak_24h, decay))
        ELSE Num(IntMul(peak_24h, alltime))]

\* an int() of lines 480-490 is given an infinity and raises OverflowError
SimpleOverflow(missing_fields, cp, p24, pa) ==
    \/ InSeq("peak_24h", missing_fields) /\ Positive(cp) /\ cp.inf
    \/ InSeq("peak_24h", missing_fields) /\ ~Positive(cp) /\ Positive(pa) /\ pa.inf
    \/ /\ ~InSeq("peak_24h", missing_fields) /\ Positive(p24) /\ p24.inf
       /\ InSeq("current_players", missing_fields) \/ InSeq("peak_alltime", missing_fields)

SimpleFrom(missing_fields, decay, alltime, cp, p24, pa, guarded) ==
    IF ~cp.ok \/ ~p24.ok \/ ~pa.ok \/ SimpleOverflow(missing_fields, cp, p24, pa)
    THEN [raised |-> TRUE, data |-> EmptyDict]
    ELSE [raised |-> FALSE,
          data |-> SimpleData(missing_fields, decay, alltime, cp, pa,
                              SimplePeak24h(missing_fields, decay, alltime, cp, p24, pa),
                              guarded)]

SimpleAged(df_row, missing_fields, age, guarded) ==
    SimpleFrom(missing_fields, DecayTenths(age), AlltimeTenths(age),
               FloatOrZero(df_row["current_players"]), FloatOrZero(df_row["peak_24h"]),
               FloatOrZero(df_row["peak_alltime"]), guarded)

\* a variant of _simple_estimate without the guard of line 486 that
\* current_players is among the missing fields
simple_estimate_unguarded(df_row, missing_fields) ==
    SimpleAged(df_row, missing_fields, SimpleGameAge(df_row["release_date"]),
               {"peak_alltime"})

\* SteamDataCleaner._simple_estimate(df_row, missing_fields): the estimates, or
\* raised when a float() or int() of it raises
simple_estimate(df_row, missing_fields) ==
    SimpleAged(df_row, missing_fields, SimpleGameAge(df_row["release_date"]),
               {"current_players", "peak_alltime"})

----------------------------------------------------------------------------
(* Model Bank *)

\* lines 116-128 of _extract_features_for_prediction: a float() of a numeric
\* column raises ValueError for text that is no number
ExtractRaises(df_row) ==
    \E f \in numeric_fields : ~FloatOrZero(df_row[f]).ok

\* model.predict(X)[0] of a loaded model: it raises, or returns a number
PredictRaises == [raises |-> TRUE, value |-> 0]
Predicts(v) == [raises |-> FALSE, value |-> v]

\* the guards of lines 374, 395 and 413: the targets whose model is asked
Predicted(missing_fields) ==
    {t \in Targets : InSeq(t, missing_fields) /\ t \in ml_models}

\* lines 374-431: the estimates of the model path; an exception of predict is
\* caught and a prediction that is not positive is not kept
PredictData(missing_fields, pred) ==
    [t \in {u \in Predicted(missing_fields) : ~pred[u].raises /\ pred[u].value > 0} |->
        Num(pred[t].value)]

Estimate(raised, data, simple, predicted) ==
    [raised |-> raised, data |-> data, simple |-> simple, predicted |-> predicted]

SimplePath(s) == Estimate(s.raised, s.data, TRUE, {})

\* SteamDataCleaner.estimate_player_fields(df_row, missing_fields); pred is what
\* each model's predict would return.  simple: _simple_estimate was called;
\* predicted: the targets whose model was asked.
estimate_player_fields(df_row, missing_fields, pred) ==
    IF ml_models = {}
    THEN SimplePath(simple_estimate(df_row, missing_fields))
    ELSE IF ExtractRaises(df_row)
    THEN Estimate(TRUE, EmptyDict, FALSE, {})
    ELSE Estimate(FALSE, PredictData(missing_fields, pred), FALSE,
                  Predicted(missing_fields))

----------------------------------------------------------------------------
(* External Completion *)

\* What the three collaborators answer for one record.
\*   store  get_game_details: "none" (None: a failure or success = false),
\*          "bad" (a payload that is no dict) or "data" with
\*            date       the release_date.date text, TxtNA when absent
\*            overview   "none", "unformatted" (no final_formatted) or "priced"
\*            final_formatted   the price text of a priced overview
\*            is_free
\*   spy    get_steamspy_data: "none", "bad" or "data" with average_forever,
\*          median_forever, ccu
\*   page   the steamcharts response: "error", "404" or "ok" with the greatest
\*          peak of its table (0 when the table has none)
\*   spy2   the answer to the steamspy request made from get_steamcharts_data
NoAnswer == [kind |-> "none"]
BadAnswer == [kind |-> "bad"]

Charts(peak_24h, peak_alltime, calls) ==
    [peak_24h |-> peak_24h, peak_alltime |-> peak_alltime, calls |-> calls]

\* lines 296-300 and 335-339: the ccu of the steamspy answer, 0 for None
ChartsCcu(spy2) == IF spy2.kind = "data" /\ spy2.ccu > 0 THEN spy2.ccu ELSE 0

\* SteamDataCleaner.get_steamcharts_data(app_id): (peak_24h, peak_alltime) and
\* the requests made; None is written 0 (a returned number is always > 0)
get_steamcharts_data(page, spy2) ==
    IF page.kind = "404"
    THEN IF spy2.kind = "bad"    \* steamspy_data.get raises, line 346 catches it
         THEN Charts(0, 0, <<"steamcharts", "steamspy">>)
         ELSE Charts(ChartsCcu(spy2), 0, <<"steamcharts", "steamspy">>)
    ELSE IF page.kind = "ok" /\ page.peak > 0
    THEN IF spy2.kind = "bad"
         THEN Charts(0, 0, <<"steamcharts", "steamspy">>)
         ELSE Charts(ChartsCcu(spy2), page.peak, <<"steamcharts", "steamspy">>)
    ELSE Charts(0, 0, <<"steamcharts">>)

\* lines 517-532: the store supplies field f
StoreSupplies(f, store) ==
    /\ store.kind = "data"
    /\ \/ f = "release_date" /\ store.date # TxtEmpty /\ store.date # TxtNA
       \/ f = "price" /\ (store.overview # "none" \/ store.is_free)
StoreValue(f, store) ==
    IF f = "release_date" THEN Str(store.date)
    ELSE IF store.overview = "priced" THEN Str(store.final_formatted)
    ELSE IF store.overview = "unformatted" THEN Str(TxtNA)
    ELSE Str(TxtFree)

\* lines 539-561: steamspy supplies field f
SpySupplies(f, spy) ==
    /\ spy.kind = "data"
    /\ \/ f = "playtime_avg" /\ spy.average_forever > 0
       \/ f = "playtime_median" /\ spy.median_forever > 0
       \/ f \in {"current_players", "peak_24h"} /\ spy.ccu > 0
SpyValue(f, spy) ==
    IF f = "playtime_avg" THEN Num(spy.average_forever)
    ELSE IF f = "playtime_median" THEN Num(spy.median_forever)
    ELSE Num(spy.ccu)

\* lines 569-573: steamcharts supplies field f; a peak_24h that steamspy
\* has supplied is kept
ChartsSupplies(f, charts, spy) ==
    \/ f = "peak_24h" /\ charts.peak_24h # 0 /\ ~SpySupplies(f, spy)
    \/ f = "peak_alltime" /\ charts.peak_alltime # 0
ChartsValue(f, charts) ==
    IF f = "peak_24h" THEN Num(charts.peak_24h) ELSE Num(charts.peak_alltime)

\* lines 508-510
NeedsStore(missing_fields) ==
    \E f \in {"release_date", "price"} : InSeq(f, missing_fields)
NeedsSpy(missing_fields) ==
    \E f \in {"playtime_avg", "playtime_median", "current_players", "peak_24h"} :
        InSeq(f, missing_fields)
NeedsCharts(missing_fields) ==
    InSeq("peak_alltime", missing_fields) \/ InSeq("peak_24h", missing_fields)

\* a variant of FetchCalls in which the charts lookup is asked first
FetchCallsChartsFirst(missing_fields, charts) ==
    (IF NeedsCharts(missing_fields) THEN charts.calls ELSE <<>>)
    \o (IF NeedsStore(missing_fields) THEN <<"store">> ELSE <<>>)
    \o (IF NeedsSpy(missing_fields) THEN <<"steamspy">> ELSE <<>>)

\* the external requests of fetch_missing_data, in order
FetchCalls(missing_fields, charts) ==
    (IF NeedsStore(missing_fields) THEN <<"store">> ELSE <<>>)
    \o (IF NeedsSpy(missing_fields) THEN <<"steamspy">> ELSE <<>>)
    \o (IF NeedsCharts(missing_fields) THEN charts.calls ELSE <<>>)

\* a variant of FetchData without the test of line 569 that steamspy has not
\* supplied peak_24h: the steamcharts value replaces it
FetchDataChartsReplaces(missing_fields, w, charts) ==
    [f \in {g \in SeqSet(missing_fields) :
              \/ StoreSupplies(g, w.store)
              \/ SpySupplies(g, w.spy)
              \/ ChartsSupplies(g, charts, NoAnswer)} |->
        IF StoreSupplies(f, w.store) THEN StoreValue(f, w.store)
        ELSE IF ChartsSupplies(f, charts, NoAnswer) THEN ChartsValue(f, charts)
        ELSE SpyValue(f, w.spy)]

\* a variant of FetchData without the tests that a field is in missing_fields:
\* every field that an asked lookup offers is supplied
FetchDataUnrequested(missing_fields, w, charts) ==
    [f \in {g \in FieldTypes :
              \/ NeedsStore(missing_fields) /\ StoreSupplies(g, w.store)
              \/ NeedsSpy(missing_fields) /\ SpySupplies(g, w.spy)
              \/ NeedsCharts(missing_fields) /\ ChartsSupplies(g, charts, w.spy)} |->
        IF StoreSupplies(f, w.store) THEN StoreValue(f, w.store)
        ELSE IF SpySupplies(f, w.spy) THEN SpyValue(f, w.spy)
        ELSE ChartsValue(f, charts)]

\* the fields that fetch_missing_data supplies (lines 513-573)
FetchData(missing_fields, w, charts) ==
    [f \in {g \in SeqSet(missing_fields) :
              \/ StoreSupplies(g, w.store)
              \/ SpySupplies(g, w.spy)
              \/ ChartsSupplies(g, charts, w.spy)} |->
        IF StoreSupplies(f, w.store) THEN StoreValue(f, w.store)
        ELSE IF SpySupplies(f, w.spy) THEN SpyValue(f, w.spy)
        ELSE ChartsValue(f, charts)]

Fetched(raised, data, calls) == [raised |-> raised, data |-> data, calls |-> calls]

FetchWith(missing_fields, w, charts) ==
    IF NeedsStore(missing_fields) /\ w.store.kind = "bad"
    THEN Fetched(TRUE, EmptyDict, <<"store">>)
    ELSE IF NeedsSpy(missing_fields) /\ w.spy.kind = "bad"
    THEN Fetched(TRUE, EmptyDict,
                 (IF NeedsStore(missing_fields) THEN <<"store">> ELSE <<>>)
                 \o <<"steamspy">>)
    ELSE Fetched(FALSE, FetchData(missing_fields, w, charts),
                 FetchCalls(missing_fields, charts))

\* SteamDataCleaner.fetch_missing_data(app_id, missing_fields) in the world w:
\* the supplied fields, the requests made in order, and raised when a payload
\* that is no dict makes a .get of lines 520-553 raise
fetch_missing_data(missing_fields, w) ==
    FetchWith(missing_fields, w, get_steamcharts_data(w.page, w.spy2))

\* a requests.get call of the lookup `name`; a time.sleep call at a line
Request(name) == [kind |-> "request", at |-> name]
Sleep(line) == [kind |-> "sleep", at |-> line]

\* lines 292-341: the requests of get_steamcharts_data, one after the other
ChartsEvents(charts) == [i \in 1..Len(charts.calls) |-> Request(charts.calls[i])]

\* lines 564-566
ChartsPart(missing_fields, charts) ==
    IF NeedsCharts(missing_fields) THEN ChartsEvents(charts) \o <<Sleep("566")>> ELSE <<>>

\* lines 535-566; a steamspy payload that is no dict raises after line 537
SpyPart(missing_fields, w, charts) ==
    IF NeedsSpy(missing_fields)
    THEN <<Request("steamspy"), Sleep("537")>>
         \o (IF w.spy.kind = "bad" THEN <<>> ELSE ChartsPart(missing_fields, charts))
    ELSE ChartsPart(missing_fields, charts)

\* the requests and the pauses of fetch_missing_data, in order (lines 513-566);
\* the store lookup is written as its last request, the waits between its
\* attempts being those of get_game_details
FetchEvents(missing_fields, w, charts) ==
    IF NeedsStore(missing_fields)
    THEN <<Request("store"), Sleep("515")>>
         \o (IF w.store.kind = "bad" THEN <<>> ELSE SpyPart(missing_fields, w, charts))
    ELSE SpyPart(missing_fields, w, charts)

\* the requests and the pauses of one iteration of the loop of line 633: those
\* of fetch_missing_data, then the pause of line 714 unless the iteration left
\* by the continue of line 657 or by an exception
RecordEvents(missing_fields, w, fetch, locals) ==
    IF missing_fields = <<>> THEN <<>>
    ELSE FetchEvents(missing_fields, w, get_steamcharts_data(w.page, w.spy2))
         \o (IF locals.raised = "no" /\ locals.salvaged # "A" THEN <<Sleep("714")>> ELSE <<>>)

----------------------------------------------------------------------------
(* Completion Orchestrator: one iteration of the loop of clean_data *)

\* lines 638-641
MissingOf(row) ==
    Filter(critical_fields, {f \in FieldTypes : is_field_missing(row[f], f)})

\* lines 666-670: the originally missing fields that are still missing
StillMissing(row1, missing_fields) ==
    Filter(critical_fields,
           {f \in SeqSet(missing_fields) : is_field_missing(row1[f], f)})

\* The local variables of the loop body as an iteration leaves them:
\*   idx             the position of the record (the source counts from 0,
\*                   the model from 1)
\*   row             the row as iterrows() gave it
\*   missing_fields  lines 638-641
\*   fetched, calls  what fetch_missing_data supplied, and the external
\*                   requests it made, in order
\*   after_fetch     the row after lines 659-663
\*   still_external  still_missing as lines 666-670 compute it
\*   estimated       what estimate_player_fields returned
\*   simple, predicted   which estimators were asked
\*   still_missing   still_missing at line 706
\*   raised          "no", or where the exception of line 716 came from
\*   salvaged        "no", "A" (line 655) or "B" (line 703)
Locals(idx, row, missing_fields, fetch, row1, still0, estimated, simple, predicted, still_missing, raised, salvaged) ==
    [idx |-> idx, row |-> row, missing_fields |-> missing_fields,
     fetched |-> fetch.data, calls |-> fetch.calls, after_fetch |-> row1,
     still_external |-> still0, estimated |-> estimated, simple |-> simple,
     predicted |-> predicted, still_missing |-> still_missing,
     raised |-> raised, salvaged |-> salvaged]

NoFetch == Fetched(FALSE, EmptyDict, <<>>)

\* the loop body's local variables before the first iteration
NoRecord ==
    Locals(0, <<>>, <<>>, NoFetch, <<>>, <<>>, EmptyDict, FALSE, {}, <<>>, "no", "no")

\* what an iteration does to the state: the row as it leaves it in df, the
\* indexes it appends to the drop list, its increment of the completed count
Outcome(row, drops, done, locals) ==
    [row |-> row, drops |-> drops, done |-> done, locals |-> locals]

\* a variant of lines 700-711 without salvage rule B
DecideWithoutRuleB(idx, row, missing_fields, fetch, row1, still0, est, partial, all_three, row2, still1) ==
    Outcome(row2,
            (IF all_three THEN <<idx>> ELSE <<>>) \o (IF still1 # <<>> THEN <<idx>> ELSE <<>>),
            IF still1 # <<>> THEN 0 ELSE 1,
            Locals(idx, row, missing_fields, fetch, row1, still0,
                   IF partial THEN est.data ELSE EmptyDict,
                   partial /\ est.simple,
                   IF partial THEN est.predicted ELSE {},
                   still1, "no", "no"))

\* lines 700-711: salvage rule B, then drop or count as completed
Decide(idx, row, missing_fields, fetch, row1, still0, est, partial, all_three, row2, still1) ==
    Outcome(IF still1 = <<"price">> THEN [row2 EXCEPT !["price"] = Str(TxtFree)] ELSE row2,
            (IF all_three THEN <<idx>> ELSE <<>>)
            \o (IF still1 # <<>> /\ still1 # <<"price">> THEN <<idx>> ELSE <<>>),
            IF still1 # <<>> /\ still1 # <<"price">> THEN 0 ELSE 1,
            Locals(idx, row, missing_fields, fetch, row1, still0,
                   IF partial THEN est.data ELSE EmptyDict,
                   partial /\ est.simple,
                   IF partial THEN est.predicted ELSE {},
                   IF still1 = <<"price">> THEN <<>> ELSE still1,
                   "no",
                   IF still1 = <<"price">> THEN "B" ELSE "no"))

\* lines 689-698: the estimates are written to the row, each estimated field
\* leaves the lists, and still_missing is recomputed
Estimated(idx, row, missing_fields, fetch, row1, still0, est, mpf0, partial, all_three, row2) ==
    Decide(idx, row, missing_fields, fetch, row1, still0, est, partial, all_three, row2,
           IF partial
           THEN Filter(still0,
                       {f \in FieldTypes \ ((DOMAIN est.data) \cap SeqSet(mpf0)) :
                          \/ f \notin SeqSet(mpf0)
                          \/ is_field_missing(row2[f], f)})
           ELSE still0)

\* a variant of lines 672-687 in which an exception of the estimator leaves the
\* iteration without marking the record for deletion
ClusterSwallowsError(idx, row, missing_fields, fetch, row1, still0, est, mpf0, partial, all_three) ==
    IF partial /\ est.raised
    THEN Outcome(row1, <<>>, 0,
                 Locals(idx, row, missing_fields, fetch, row1, still0, EmptyDict,
                        est.simple, est.predicted, <<>>, "estimate", "no"))
    ELSE Estimated(idx, row, missing_fields, fetch, row1, still0, est, mpf0, partial,
                   all_three, IF partial THEN Update(row1, est.data) ELSE row1)

\* lines 672-687: the player-count cluster; mpf0 is missing_player_fields
Cluster(idx, row, missing_fields, fetch, row1, still0, est, mpf0, partial, all_three) ==
    IF partial /\ est.raised
    THEN Outcome(row1, <<idx>>, 0,
                 Locals(idx, row, missing_fields, fetch, row1, still0, EmptyDict,
                        est.simple, est.predicted, <<>>, "estimate", "no"))
    ELSE Estimated(idx, row, missing_fields, fetch, row1, still0, est, mpf0, partial,
                   all_three, IF partial THEN Update(row1, est.data) ELSE row1)

\* a variant of lines 677-687 that asks the estimators also when all three
\* cluster fields are missing
ClusterOfEstimatesAll(idx, row, missing_fields, fetch, row1, still0, est, mpf0) ==
    Cluster(idx, row, missing_fields, fetch, row1, still0, est, mpf0,
            mpf0 # <<>>, FALSE)

\* lines 672-680: which branch the cluster takes
ClusterOf(idx, row, missing_fields, fetch, row1, still0, est, mpf0) ==
    Cluster(idx, row, missing_fields, fetch, row1, still0, est, mpf0,
            mpf0 # <<>> /\ SeqSet(mpf0) # Targets,
            SeqSet(mpf0) = Targets)

\* Lines 643-721 for the record at position idx, given what the calls of the
\* iteration return: fetch = fetch_missing_data(app_id, missing_fields), row1
\* the row updated with it, still0 the fields still missing then, est =
\* estimate_player_fields(df.loc[idx], player_field_types)
Iteration(idx, row, missing_fields, fetch, row1, still0, est) ==
    IF missing_fields = <<>>
    THEN Outcome(row, <<>>, 0,
                 Locals(idx, row, missing_fields, NoFetch, row, <<>>, EmptyDict,
                        FALSE, {}, <<>>, "no", "no"))
    ELSE IF fetch.raised
    THEN Outcome(row, <<idx>>, 0,
                 Locals(idx, row, missing_fields, fetch, row, <<>>, EmptyDict,
                        FALSE, {}, <<>>, "fetch", "no"))
    ELSE IF missing_fields = <<"price">> /\ "price" \notin DOMAIN fetch.data
    THEN Outcome([row EXCEPT !["price"] = Str(TxtFree)], <<>>, 1,
                 Locals(idx, row, missing_fields, fetch, row, <<>>, EmptyDict,
                        FALSE, {}, <<>>, "no", "A"))
    ELSE ClusterOf(idx, row, missing_fields, fetch, row1, still0, est,
                   Filter(still0, Targets))


----------------------------------------------------------------------------
(* The cell values the model draws *)

TxtBlank == <<" ">>
TxtTabBlank == <<"\t", " ">>
TxtNaMixed == <<"N","/","a">>
TxtNaPadded == <<" ","n","/","a"," ">>
TxtNanUpper == <<"N","A","N">>
TxtNanMixed == <<"N","a","N">>
TxtFreeLower == <<"f","r","e","e">>
TxtFreePadded == <<" ","F","r","e","e"," ">>
\* the localized spelling of the free sentinel (two CJK characters, U+514D U+8D39)
TxtFreeCn == <<"U+514D", "U+8D39">>
TxtComingSoonPadded == <<" ","C","o","m","i","n","g"," ","S","o","o","n">>
TxtTbaLower == <<"t","b","a">>
TxtPrice == <<"$","2","9",".","9","9">>
TxtDateOld == <<"N","o","v"," ","1",","," ","2","0","1","8">>
TxtDateMid == <<"M","a","r"," ","3",","," ","2","0","2","2">>
TxtDateNew == <<"2","0","2","5","-","0","1","-","0","2">>
TxtZero == <<"0">>
TxtZeroPoint == <<"0",".","0">>
TxtZeroPadded == <<" ","0"," ">>
TxtMinusZero == <<"-","0">>
TxtFifty == <<"5","0">>
TxtFiftyPadded == <<" ","5","0","\t">>
TxtHalf == <<".","5">>
TxtPlusFive == <<"+","5">>
TxtGrouped == <<"1",",","2","3","4">>
TxtWord == <<"a","b","c">>
TxtInfMixed == <<"I","n","f">>
TxtMinusFive == <<"-","5">>

FreeSentinels == {TxtFree, TxtFreeCn}

Texts ==
    {TxtEmpty, TxtBlank, TxtTabBlank,
     TxtNA, TxtNaLower, TxtNaMixed, TxtNaPadded, TxtNan, TxtNanUpper, TxtNanMixed,
     TxtFree, TxtFreeLower, TxtFreePadded, TxtFreeCn,
     TxtComingSoon, TxtComingSoonPadded, TxtTBA, TxtTbaLower,
     TxtPrice, TxtDateOld, TxtDateMid, TxtDateNew,
     TxtZero, TxtZeroPoint, TxtZeroPadded, TxtMinusZero,
     TxtFifty, TxtFiftyPadded, TxtHalf, TxtPlusFive, TxtGrouped, TxtWord,
     TxtInfMixed, TxtMinusFive}

Numbers == (-1 .. MaxNum) \cup {50}

Values == {Null} \cup {Str(t) : t \in Texts} \cup {Num(i) : i \in Numbers}

----------------------------------------------------------------------------
----------------------------------------------------------------------------
(* Specification of the Field Classifier: one call on any value and type *)

\* the required columns of line 599
required_columns == {"AppID"} \cup FieldTypes

RunIdle ==
    /\ columns = required_columns
    /\ run = 1
    /\ pending = <<>>
    /\ has_missing = <<>>

FetchIdle ==
    /\ call_missing = <<>>
    /\ call_world = NoAnswer
    /\ call_result = <<>>

LookupIdle ==
    /\ lookup_name = ""
    /\ max_retries = 0
    /\ attempt = 0
    /\ requests = <<>>
    /\ waits = <<>>
    /\ answer = <<>>

TrainerIdle ==
    /\ ref = <<>>
    /\ trained = 0
    /\ models = {}

FeaturesIdle ==
    /\ frow = <<>>
    /\ now = CurrentYear
    /\ fvecs = <<>>

EstimateIdle ==
    /\ est_row = <<>>
    /\ est_missing = <<>>
    /\ est_pc = "idle"
    /\ features_dict = <<>>
    /\ est_data = <<>>
    /\ predictions = <<>>

SelectIdle ==
    /\ results = <<>>
    /\ best_model_name = <<>>

CleanIdle ==
    /\ pc = "idle"
    /\ ml_models = {}
    /\ nrows = 0
    /\ df = <<>>
    /\ dropped = <<>>
    /\ completed = 0
    /\ last = NoRecord
    /\ events = <<>>

InitClassify ==
    /\ cval \in Values
    /\ ctype \in FieldTypes
    /\ cres = <<>>
    /\ CleanIdle
    /\ EstimateIdle /\ SelectIdle
    /\ RunIdle /\ FetchIdle /\ LookupIdle /\ TrainerIdle /\ FeaturesIdle

Classify ==
    /\ cres = <<>>
    /\ cres' = <<is_field_missing(cval, ctype)>>
    /\ UNCHANGED <<cval, ctype>>
    /\ UNCHANGED cleanVars
    /\ UNCHANGED otherVars

NextClassify == Classify

SpecClassify == InitClassify /\ [][NextClassify]_vars

Classified == cres # <<>>
Missing == cres = <<TRUE>>

----------------------------------------------------------------------------
(* Claims about the Field Classifier *)

IsZero(f) == f.ok /\ ~f.nan /\ ~f.inf /\ f.num = 0
ParsesToZero(v) == IsZero(ToFloat(v))
FailsToParse(v) == ~ToFloat(v).ok
StrictlyPositive(v) == Positive(ToFloat(v))

\* C8: for each of the five numeric-count fields, is_field_missing returns
\* true when the value is null, fails to parse as a number or parses to exactly
\* 0, and returns false for every strictly positive value.
C8_NumericZeroIsMissing ==
    (Classified /\ ctype \in numeric_fields) =>
        /\ (cval.k = "null" \/ FailsToParse(cval) \/ ParsesToZero(cval)) => Missing
        /\ (cval.k # "null" /\ StrictlyPositive(cval)) => ~Missing

C8_Witness ==
    /\ Classified /\ Missing
    /\ ctype = "peak_24h"
    /\ cval = Str(TxtZeroPoint)

IsFreeSentinel(v) == v.k = "str" /\ v.s \in FreeSentinels
IsEmptyText(v) == v.k = "str" /\ Strip(v.s) = TxtEmpty
IsPlaceholderText(v) ==
    v.k = "str" /\ (Strip(v.s) = TxtEmpty \/ Lower(Strip(v.s)) \in {TxtNaLower, TxtNan})

\* C9 as stated: a price holding the free sentinel is never missing, and for
\* price only a null or empty value counts as missing.
C9_PriceOnlyNullOrEmptyMissing ==
    (Classified /\ ctype = "price") =>
        /\ IsFreeSentinel(cval) => ~Missing
        /\ Missing => (cval.k = "null" \/ IsEmptyText(cval))

\* C9 as amended: a price holding the free sentinel ('Free' or its localized
\* spelling) is never missing; a price is missing exactly when it is null or
\* is text that, stripped, is empty or equals 'n/a' or 'nan' in any letter case.
C9_PriceFreeNotMissing ==
    (Classified /\ ctype = "price") =>
        /\ IsFreeSentinel(cval) => ~Missing
        /\ Missing <=> (cval.k = "null" \/ IsPlaceholderText(cval))

C9_Witness ==
    /\ Classified /\ ~Missing
    /\ ctype = "price"
    /\ cval = Str(TxtFree)

\* C10: for every field type, is_field_missing returns true for null and for
\* text that is empty, whitespace-only or equal to 'n/a' or 'nan' in any letter
\* case, and for release_date also for 'Coming Soon' and 'TBA'; these rules come
\* before any type-specific rule (so the price rule cannot turn 'N/A' into a
\* present value).
C10_PlaceholdersMissingForEveryType ==
    Classified =>
        /\ cval.k = "null" => Missing
        /\ IsPlaceholderText(cval) => Missing
        /\ (ctype = "release_date" /\ cval.k = "str"
                /\ Strip(cval.s) \in {TxtComingSoon, TxtTBA}) => Missing

C10_Witness ==
    /\ Classified /\ Missing
    /\ ctype = "price"
    /\ cval = Str(TxtNA)

----------------------------------------------------------------------------
(* The worlds and the input rows the model draws *)

StoreData(date, overview, is_free) ==
    [kind |-> "data", date |-> date, overview |-> overview,
     final_formatted |-> TxtPrice, is_free |-> is_free]
SpyData(avg, med, ccu) ==
    [kind |-> "data", average_forever |-> avg, median_forever |-> med, ccu |-> ccu]
Page(kind, peak) == [kind |-> kind, peak |-> peak]

StoreAnswers ==
    {NoAnswer, BadAnswer,
     StoreData(TxtDateOld, "priced", FALSE),
     StoreData(TxtComingSoon, "none", TRUE),
     StoreData(TxtNA, "none", FALSE),
     StoreData(TxtDateNew, "unformatted", FALSE)}

SpyAnswers ==
    {NoAnswer, BadAnswer, SpyData(0, 0, 0), SpyData(600, 400, 50)}

\* the steamcharts page and the answer to the steamspy request made from it
ChartsAnswers ==
    {<<Page("error", 0), NoAnswer>>,
     <<Page("404", 0), NoAnswer>>,
     <<Page("404", 0), SpyData(600, 400, 60)>>,
     <<Page("ok", 900), NoAnswer>>,
     <<Page("ok", 900), BadAnswer>>,
     <<Page("ok", 900), SpyData(600, 400, 60)>>}

World(st, sp, ch) == [store |-> st, spy |-> sp, page |-> ch[1], spy2 |-> ch[2]]

\* every combination of answers of the collaborators that the record asks
Worlds(missing_fields) ==
    {World(st, sp, ch) :
        st \in (IF NeedsStore(missing_fields) THEN StoreAnswers ELSE {NoAnswer}),
        sp \in (IF NeedsSpy(missing_fields) THEN SpyAnswers ELSE {NoAnswer}),
        ch \in (IF NeedsCharts(missing_fields) THEN ChartsAnswers
                ELSE {<<Page("error", 0), NoAnswer>>})}

\* the collaborators of a run without network, and of a run where all answer
Unreachable == World(NoAnswer, NoAnswer, <<Page("error", 0), NoAnswer>>)
BatchWorlds(missing_fields) ==
    {Unreachable,
     World(BadAnswer, BadAnswer, <<Page("error", 0), NoAnswer>>),
     World(StoreData(TxtDateOld, "priced", FALSE), SpyData(600, 400, 50),
           <<Page("ok", 900), SpyData(600, 400, 60)>>)}

\* the worlds a run draws from: every combination, or the three of a batch
WorldsOf(every_world, missing_fields) ==
    IF every_world THEN Worlds(missing_fields) ELSE BatchWorlds(missing_fields)

PredictAnswers == {PredictRaises, Predicts(0), Predicts(7)}

\* what the loaded models answer when estimate_player_fields is called with
\* missing_fields; a model that is not asked has no answer
Preds(missing_fields) ==
    {p \in [Targets -> PredictAnswers] :
        \A t \in Targets : t \notin Predicted(missing_fields) => p[t] = PredictRaises}

Row(date, price, avg, med, cp, p24, pa) ==
    [release_date |-> date, price |-> price, playtime_avg |-> avg,
     playtime_median |-> med, current_players |-> cp, peak_24h |-> p24,
     peak_alltime |-> pa]

\* the record of the spec's scenarios, complete
RowIntact ==
    Row(Str(TxtDateOld), Str(TxtPrice), Num(600), Num(400), Num(50), Num(250), Num(875))

\* the rows of a batch
BatchRows ==
    {RowIntact,
     [RowIntact EXCEPT !["price"] = Null],
     [RowIntact EXCEPT !["current_players"] = Num(0), !["peak_24h"] = Num(0),
                       !["peak_alltime"] = Num(0)],
     [RowIntact EXCEPT !["peak_24h"] = Num(0), !["peak_alltime"] = Num(0)],
     [RowIntact EXCEPT !["current_players"] = Num(0), !["peak_24h"] = Num(1),
                       !["peak_alltime"] = Num(5)],
     [RowIntact EXCEPT !["playtime_avg"] = Str(TxtWord), !["peak_alltime"] = Null],
     [RowIntact EXCEPT !["release_date"] = Str(TxtComingSoon), !["price"] = Str(TxtNA)]}

\* the rows of a one-record run: every combination of these cell values
RecordRows ==
    {Row(date, price, avg, Num(400), cp, p24, pa) :
        date \in {Str(TxtDateOld), Str(TxtDateMid), Str(TxtDateNew), Str(TxtComingSoon)},
        price \in {Str(TxtPrice), Null},
        avg \in {Num(600), Str(TxtWord)},
        cp \in {Num(i) : i \in (0 .. MaxNum) \cup {50}},
        p24 \in {Num(i) : i \in (0 .. MaxNum)},
        pa \in {Num(0), Num(5)}}

----------------------------------------------------------------------------
(* Specifications of clean_data *)

ClassifierIdle ==
    /\ cval = Null
    /\ ctype = "price"
    /\ cres = <<>>

\* after __init__ (the Model Bank is whatever model files exist) and the
\* reading of the input file
InitClean(sizes) ==
    /\ EstimateIdle /\ SelectIdle
    /\ ClassifierIdle
    /\ RunIdle /\ FetchIdle /\ LookupIdle /\ TrainerIdle /\ FeaturesIdle
    /\ pc = "loop"
    /\ ml_models \in SUBSET Targets
    /\ nrows \in sizes
    /\ df = <<>>
    /\ dropped = <<>>
    /\ completed = 0
    /\ last = NoRecord
    /\ events = <<>>

\* the list that line 687 passes to estimate_player_fields, empty when the
\* iteration does not reach that line
EstimatorInput(fetch, still0) ==
    IF ~fetch.raised /\ SeqSet(Filter(still0, Targets)) # Targets
    THEN Filter(still0, Targets)
    ELSE <<>>

\* one iteration of the loop of line 633: the row is read, the collaborators
\* and the models answer, and the body runs to its end
ProcessRecord(rows, every_world) ==
    /\ pc = "loop"
    /\ Len(df) < nrows
    /\ \E row \in rows : \E missing_fields \in {MissingOf(row)} :
       \E w \in WorldsOf(every_world, missing_fields) :
       \E fetch \in {fetch_missing_data(missing_fields, w)} :
       \E row1 \in {Update(row, fetch.data)} :
       \E still0 \in {StillMissing(row1, missing_fields)} :
       \E pred \in Preds(EstimatorInput(fetch, still0)) :
       \E est \in {estimate_player_fields(row1, Filter(still0, Targets), pred)} :
       \E it \in {Iteration(Len(df) + 1, row, missing_fields, fetch, row1, still0, est)} :
            /\ df' = Append(df, it.row)
            /\ dropped' = dropped \o it.drops
            /\ completed' = completed + it.done
            /\ last' = it.locals
            /\ events' = events \o RecordEvents(missing_fields, w, fetch, it.locals)
    /\ UNCHANGED <<pc, ml_models, nrows>>
    /\ UNCHANGED classifyVars
    /\ UNCHANGED otherVars

\* lines 723-754: the loop is over; the dropped rows are removed and the rest saved
Finish ==
    /\ pc = "loop"
    /\ Len(df) = nrows
    /\ pc' = "done"
    /\ UNCHANGED <<ml_models, nrows, df, dropped, completed, last, events>>
    /\ UNCHANGED classifyVars
    /\ UNCHANGED otherVars

\* df_cleaned: df.drop(删除的索引)
Kept(i) == i \in 1..Len(df) /\ ~InSeq(i, dropped)

Init == InitClean(1..MaxBatch)
Next == ProcessRecord(BatchRows, FALSE) \/ Finish
Spec == Init /\ [][Next]_vars

InitRecord == InitClean({1})
NextRecord == ProcessRecord(RecordRows, TRUE) \/ Finish
SpecRecord == InitRecord /\ [][NextRecord]_vars

----------------------------------------------------------------------------
(* Claims about clean_data *)

\* an iteration has run; last holds its local variables
Iterated == last.idx # 0

\* missing_player_fields as line 674 computes it in the latest iteration
LastClusterMissing == Filter(last.still_external, Targets)

\* the latest iteration reached line 677 with all three cluster fields missing
AllThreeMissing ==
    Iterated /\ last.raised = "no" /\ SeqSet(LastClusterMissing) = Targets

\* the latest iteration reached line 687: some, not all, cluster fields missing
SomeNotAllMissing ==
    /\ Iterated /\ last.raised # "fetch"
    /\ LastClusterMissing # <<>>
    /\ SeqSet(LastClusterMissing) # Targets

Dropped(i) == InSeq(i, dropped)

\* C1: after clean_data has processed a batch, every record of the final output
\* has, for each of the seven critical fields, a value that is_field_missing
\* classifies as not missing.
C1_KeptRecordsHaveNoMissingField ==
    pc = "done" =>
        \A i \in 1..Len(df) :
            Kept(i) => \A f \in FieldTypes : ~is_field_missing(df[i][f], f)

\* C2: if all three cluster fields are still missing after external completion,
\* the record is dropped for every Model Bank content and neither the
\* model-based nor the heuristic estimator is invoked for it.
C2_AllThreeMissingDroppedWithoutEstimate ==
    AllThreeMissing =>
        /\ Dropped(last.idx)
        /\ ~last.simple
        /\ last.predicted = {}
        /\ last.estimated = EmptyDict

C2_Witness ==
    /\ AllThreeMissing
    /\ ml_models = Targets
    /\ Dropped(last.idx)
    /\ "steamcharts" \in SeqSet(last.calls)

\* C3: a record whose only originally missing critical field is price is never
\* dropped, whatever the store lookup returns; when the lookup supplies no
\* price the price is set to 'Free' and the record is kept.
C3_PriceOnlyNeverDropped ==
    (Iterated /\ last.missing_fields = <<"price">>) =>
        /\ ~Dropped(last.idx)
        /\ "price" \notin DOMAIN last.fetched => df[last.idx]["price"] = Str(TxtFree)

\* C4: when some but not all cluster fields are missing after external
\* completion, a missing target without a model in the Model Bank is estimated
\* by the heuristic estimator, also when the bank holds models for other targets.
C4_HeuristicFallbackPerTarget ==
    (SomeNotAllMissing /\ SeqSet(LastClusterMissing) \ ml_models # {}) => last.simple

\* C5: an error raised while a record is processed (by external completion,
\* feature extraction or estimation) makes that record dropped, and the loop
\* goes on: the run ends only after every record of the batch was iterated.
C5_ErrorDropsRecordOnly ==
    /\ (Iterated /\ last.raised # "no") => Dropped(last.idx)
    /\ last.idx = Len(df)
    /\ pc = "done" => Len(df) = nrows

\* the first record raised in feature extraction and was dropped; the second
\* was processed after it and is kept
C5_Witness ==
    /\ pc = "done" /\ Len(df) = 2
    /\ ml_models # {}
    /\ df[1]["playtime_avg"] = Str(TxtWord) /\ Dropped(1)
    /\ last.idx = 2 /\ last.missing_fields # <<>> /\ last.raised = "no" /\ Kept(2)

\* the record of C6: only the two peaks missing, current_players positive,
\* nothing reachable, no model loaded
C6_Scenario ==
    /\ Iterated /\ last.raised = "no"
    /\ ml_models = {}
    /\ last.missing_fields = <<"peak_24h", "peak_alltime">>
    /\ last.fetched = EmptyDict
    /\ Positive(ToFloat(last.row["current_players"]))

C6_Age == SimpleGameAge(last.row["release_date"])
C6_DecayTenths == IF C6_Age <= 2 THEN 8 ELSE IF C6_Age <= 5 THEN 5 ELSE 2
C6_AlltimeTenths == IF C6_Age <= 2 THEN 13 ELSE IF C6_Age <= 5 THEN 20 ELSE 35
C6_Current == last.row["current_players"].n
C6_Peak24h == df[last.idx]["peak_24h"].n
C6_PeakAlltime == df[last.idx]["peak_alltime"].n

\* C6 as stated: the record is kept with peak_24h = current_players /
\* decay_factor and peak_alltime = peak_24h * alltime_factor, exactly.
C6_HeuristicExactQuotient ==
    C6_Scenario =>
        /\ Kept(last.idx)
        /\ C6_Peak24h * C6_DecayTenths = C6_Current * 10
        /\ C6_PeakAlltime * 10 = C6_Peak24h * C6_AlltimeTenths

\* C6 as amended: the record is kept with peak_24h = current_players /
\* decay_factor truncated to an integer and peak_alltime = that peak_24h *
\* alltime_factor truncated to an integer (for current_players = 50 and an age
\* above 5 years: 250 and 875).
C6_HeuristicTruncatedQuotient ==
    C6_Scenario =>
        /\ Kept(last.idx) /\ last.still_missing = <<>>
        /\ df[last.idx]["peak_24h"].k = "num" /\ df[last.idx]["peak_alltime"].k = "num"
        /\ C6_Peak24h * C6_DecayTenths <= C6_Current * 10
        /\ C6_Current * 10 < (C6_Peak24h + 1) * C6_DecayTenths
        /\ C6_PeakAlltime * 10 <= C6_Peak24h * C6_AlltimeTenths
        /\ C6_Peak24h * C6_AlltimeTenths < (C6_PeakAlltime + 1) * 10
        /\ (C6_Current = 50 /\ C6_Age > 5) => (C6_Peak24h = 250 /\ C6_PeakAlltime = 875)

C6_Witness ==
    /\ C6_Scenario
    /\ C6_Current = 50 /\ C6_Age > 5
    /\ C6_Peak24h = 250 /\ C6_PeakAlltime = 875
    /\ pc = "done" /\ Kept(1)

\* C7: neither estimator returns a value for a cluster target that was not in
\* the list of missing targets passed to it, so a cluster field that is present
\* before estimation keeps its value.
C7_EstimatorsKeepPresentTargets ==
    SomeNotAllMissing =>
        /\ DOMAIN last.estimated \subseteq SeqSet(LastClusterMissing)
        /\ \A t \in Targets \ SeqSet(LastClusterMissing) :
               df[last.idx][t] = last.after_fetch[t]

C7_Witness ==
    /\ SomeNotAllMissing /\ last.simple
    /\ LastClusterMissing = <<"peak_24h">>
    /\ "peak_24h" \in DOMAIN last.estimated
    /\ df[last.idx]["current_players"] = Num(50)

----------------------------------------------------------------------------
(* Specification of External Completion: one call of fetch_missing_data *)

\* the non-empty lists of missing fields, in the order of critical_fields
MissingLists == {Filter(critical_fields, S) : S \in (SUBSET FieldTypes) \ {{}}}

InitFetch ==
    /\ call_missing \in MissingLists
    /\ call_world \in Worlds(call_missing)
    /\ call_result = <<>>
    /\ EstimateIdle /\ SelectIdle
    /\ ClassifierIdle /\ CleanIdle
    /\ RunIdle /\ LookupIdle /\ TrainerIdle /\ FeaturesIdle

Fetch ==
    /\ call_result = <<>>
    /\ call_result' = <<fetch_missing_data(call_missing, call_world)>>
    /\ UNCHANGED <<call_missing, call_world>>
    /\ UNCHANGED <<laterVars, classifyVars, cleanVars, runVars, lookupVars, trainerVars, featureVars>>

NextFetch == Fetch

SpecFetch == InitFetch /\ [][NextFetch]_vars

\* the call has returned or raised; its outcome
Fetching == call_result # <<>>
Returned == call_result # <<>> /\ ~call_result[1].raised
FetchResult == call_result[1].data
FetchRequests == call_result[1].calls

\* the live count of a steamspy payload, 0 when there is none
CcuOf(spy) == IF spy.kind = "data" THEN spy.ccu ELSE 0

\* what get_steamcharts_data returns in the world of the call
ChartsOfCall == get_steamcharts_data(call_world.page, call_world.spy2)

SourceRank(name) == IF name = "store" THEN 1 ELSE IF name = "steamspy" THEN 2 ELSE 3

\* the requests up to the one to steamcharts (all of them when there is none)
DirectRequests(calls) ==
    IF InSeq("steamcharts", calls)
    THEN SubSeq(calls, 1, Least({i \in 1..Len(calls) : calls[i] = "steamcharts"}))
    ELSE calls

\* C12: a call that returns asks the store exactly when release_date or price
\* is missing, steamspy exactly when playtime_avg, playtime_median,
\* current_players or peak_24h is missing, and steamcharts exactly when
\* peak_alltime or peak_24h is missing; the lookups are asked in the order
\* store, steamspy, steamcharts, and after the request to steamcharts only the
\* steamspy request of the charts lookup itself follows.
C12_SourcesByNeedInOrder ==
    Returned =>
        /\ InSeq("store", FetchRequests) <=>
               (InSeq("release_date", call_missing) \/ InSeq("price", call_missing))
        /\ InSeq("steamspy", DirectRequests(FetchRequests)) <=>
               \/ InSeq("playtime_avg", call_missing)
               \/ InSeq("playtime_median", call_missing)
               \/ InSeq("current_players", call_missing)
               \/ InSeq("peak_24h", call_missing)
        /\ InSeq("steamcharts", FetchRequests) <=>
               (InSeq("peak_alltime", call_missing) \/ InSeq("peak_24h", call_missing))
        /\ \A i, j \in 1..Len(DirectRequests(FetchRequests)) :
               i < j => SourceRank(FetchRequests[i]) < SourceRank(FetchRequests[j])
        /\ \A i \in 1..Len(FetchRequests) :
               i > Len(DirectRequests(FetchRequests)) =>
                  /\ i = Len(DirectRequests(FetchRequests)) + 1
                  /\ FetchRequests[i] = "steamspy"

C12_Witness ==
    /\ Returned
    /\ SeqSet(call_missing) = FieldTypes
    /\ FetchRequests = <<"store", "steamspy", "steamcharts", "steamspy">>

\* C13: external completion never raises to its caller.
C13_FetchNeverRaises ==
    Fetching => ~call_result[1].raised

----------------------------------------------------------------------------
(* Specification of the lookups: one call of get_game_details,             *)
(* get_steamspy_data or get_steamcharts_data, request by request           *)

\* get_game_details is called with max_retries in 1 .. MaxRetries (default 3)
MaxRetries == 4

\* the seconds of line 203 per attempt, and of line 218
RateLimitWaitStep == 30
ErrorWait == 5

Wait(why, seconds) == [why |-> why, seconds |-> seconds]

InitLookup ==
    /\ lookup_name \in {"store", "steamspy", "steamcharts"}
    /\ max_retries \in (IF lookup_name = "store" THEN 1..MaxRetries ELSE {0})
    /\ attempt = 0
    /\ requests = <<>>
    /\ waits = <<>>
    /\ answer = <<>>
    /\ EstimateIdle /\ SelectIdle
    /\ ClassifierIdle /\ CleanIdle
    /\ RunIdle /\ FetchIdle /\ TrainerIdle /\ FeaturesIdle

\* what get_game_details returns for a response with success = true
StorePayloads == {s \in StoreAnswers : s.kind # "none"}

\* lines 193-220: one iteration of the loop of get_game_details; the response
\* is a 429, an error (requests.get, raise_for_status or json raises), a
\* payload with success = false, or one with success = true.  The iteration
\* that ends the loop returns None (line 222).
StoreAttempt ==
    /\ lookup_name = "store"
    /\ answer = <<>>
    /\ attempt < max_retries
    /\ \E r \in {"429", "error", "failure", "success"} :
        /\ requests' = Append(requests, r)
        /\ attempt' = attempt + 1
        /\ waits' = IF r = "429"
                    THEN Append(waits, Wait("429", (attempt + 1) * RateLimitWaitStep))
                    ELSE IF r = "error" /\ attempt < max_retries - 1
                    THEN Append(waits, Wait("error", ErrorWait))
                    ELSE waits
        /\ \E payload \in (IF r = "success" THEN StorePayloads ELSE {NoAnswer}) :
              answer' = IF r \in {"429", "error"} /\ attempt + 1 < max_retries
                        THEN <<>>
                        ELSE <<payload>>
    /\ UNCHANGED <<lookup_name, max_retries>>
    /\ UNCHANGED <<laterVars, classifyVars, cleanVars, runVars, fetchVars, trainerVars, featureVars>>

\* lines 259-270: get_steamspy_data makes one request; a 429 makes
\* raise_for_status raise, which line 268 turns into None
SpyRequest ==
    /\ lookup_name = "steamspy"
    /\ answer = <<>>
    /\ \E r \in {"429", "error", "success"} :
        /\ requests' = Append(requests, r)
        /\ \E payload \in (IF r = "success" THEN SpyAnswers \ {NoAnswer} ELSE {NoAnswer}) :
              answer' = <<payload>>
    /\ UNCHANGED <<lookup_name, max_retries, attempt, waits>>
    /\ UNCHANGED <<laterVars, classifyVars, cleanVars, runVars, fetchVars, trainerVars, featureVars>>

\* the steamcharts page answers 429: raise_for_status raises (line 303)
RateLimitedPage == <<Page("429", 0), NoAnswer>>

\* lines 282-348: get_steamcharts_data makes one request to steamcharts (and
\* may ask steamspy once); requests holds the response of steamcharts
ChartsRequest ==
    /\ lookup_name = "steamcharts"
    /\ answer = <<>>
    /\ \E ch \in ChartsAnswers \cup {RateLimitedPage} :
        /\ requests' = Append(requests, ch[1].kind)
        /\ answer' = <<get_steamcharts_data(ch[1], ch[2])>>
    /\ UNCHANGED <<lookup_name, max_retries, attempt, waits>>
    /\ UNCHANGED <<laterVars, classifyVars, cleanVars, runVars, fetchVars, trainerVars, featureVars>>

NextLookup == StoreAttempt \/ SpyRequest \/ ChartsRequest

SpecLookup == InitLookup /\ [][NextLookup]_vars

\* the lookup returned no payload
NoPayload ==
    /\ answer # <<>>
    /\ \/ answer[1] = NoAnswer
       \/ lookup_name = "steamcharts" /\ answer[1].peak_24h = 0 /\ answer[1].peak_alltime = 0

RateLimitWaits == SelectSeq(waits, LAMBDA x : x.why = "429")
RateLimited == SelectSeq(requests, LAMBDA r : r = "429")

\* the number of requests a lookup may issue: max_retries for the store; the
\* claim gives every lookup the store's default
DefaultRetries == 3
RetryLimit == IF lookup_name = "store" THEN max_retries ELSE DefaultRetries

\* C14: a lookup that receives a 429 waits and retries, with a wait that
\* strictly grows from one attempt to the next; it issues at most max_retries
\* requests; when every attempt was rate-limited it returns no payload.
C14_RateLimitWaitsAndRetries ==
    /\ Len(RateLimitWaits) = Len(RateLimited)
    /\ \A i, j \in 1..Len(RateLimitWaits) :
           i < j => RateLimitWaits[i].seconds < RateLimitWaits[j].seconds
    /\ Len(requests) <= RetryLimit
    /\ (answer # <<>> /\ requests # <<>> /\ requests[Len(requests)] = "429") =>
           (NoPayload /\ Len(requests) = RetryLimit)

----------------------------------------------------------------------------
(* Specification of a second run of clean_data on the output of a first *)

\* df_cleaned of lines 723-731: the rows of df whose index is not dropped
KeptIndexes == {i \in 1..Len(df) : ~InSeq(i, dropped)}
NthKept(k) == CHOOSE i \in KeptIndexes : Cardinality({j \in KeptIndexes : j < i}) = k - 1
df_cleaned == [k \in 1..Cardinality(KeptIndexes) |-> df[NthKept(k)]]

\* clean_data is called again, with the same Model Bank, on the file that the
\* first run wrote (a file with at least one record)
Restart ==
    /\ pc = "done"
    /\ run = 1
    /\ KeptIndexes # {}
    /\ run' = 2
    /\ pending' = df_cleaned
    /\ nrows' = Len(df_cleaned)
    /\ df' = <<>>
    /\ dropped' = <<>>
    /\ completed' = 0
    /\ last' = NoRecord
    /\ events' = <<>>
    /\ pc' = "loop"
    /\ UNCHANGED <<ml_models, columns, has_missing>>
    /\ UNCHANGED <<laterVars, classifyVars, fetchVars, lookupVars, trainerVars, featureVars>>

\* the rows that iterrows() may give next: any row of a first run's input, the
\* next row of the file in a second run
RerunRows == IF run = 1 THEN BatchRows ELSE {pending[Len(df) + 1]}

InitRerun == InitClean(1..MaxBatch)
NextRerun == ProcessRecord(RerunRows, FALSE) \/ Finish \/ Restart
SpecRerun == InitRerun /\ [][NextRerun]_vars

\* C15: a second run, with the same Model Bank, on a record that the first run
\* kept finds no missing critical field, issues no external call, changes no
\* field and keeps the record.
C15_SecondRunChangesNothing ==
    (run = 2 /\ Iterated) =>
        /\ last.missing_fields = <<>>
        /\ last.calls = <<>>
        /\ df[last.idx] = pending[last.idx]
        /\ ~Dropped(last.idx)

----------------------------------------------------------------------------
(* Specification of the Trainer: one call of train_all_models *)

\* the threshold of line 292 of train_ml_model.py
MinSamples == 10
\* beside the base rows, the reference set holds 0 .. MaxExtra rows per target
\* in which that target alone is positive
MaxExtra == 2

\* pd.to_numeric(column, errors='coerce').fillna(0) for one cell: text that
\* is no number, NaN and null give 0
ToNumeric(v) ==
    IF v.k = "null" THEN NumFloat(0)
    ELSE IF ~ToFloat(v).ok \/ ToFloat(v).nan THEN NumFloat(0)
    ELSE ToFloat(v)

\* line 115 of train_ml_model.py: valid_mask = (df[target_field] > 0)
TargetValid(v) == Positive(ToNumeric(v))

\* The reference set: `base` rows in which the three targets hold `positive`,
\* and per target extra[t] rows in which t holds `positive` and the other two
\* targets hold `filler`.
RefSet(base, extra, positive, filler) ==
    [base |-> base, extra |-> extra, positive |-> positive, filler |-> filler]

\* the cell of column t in a row in which u alone is positive
ExtraCell(r, t, u) == IF t = u THEN r.positive ELSE r.filler

RECURSIVE SumOver(_, _)
SumOver(f, S) ==
    IF S = {} THEN 0
    ELSE SumOver(f, S \ {CHOOSE x \in S : TRUE}) + f[CHOOSE x \in S : TRUE]

\* a variant that counts every row of the reference set
ValidCountAllRows(r, t) == r.base + SumOver(r.extra, Targets)

\* len(X) of prepare_training_data(features_df, t): the rows with t > 0
ValidCount(r, t) ==
    (IF TargetValid(r.positive) THEN r.base ELSE 0)
    + SumOver([u \in Targets |-> IF TargetValid(ExtraCell(r, t, u)) THEN r.extra[u] ELSE 0],
              Targets)

InitTrainer ==
    /\ ref \in {RefSet(base, extra, positive, filler) :
                   base \in {0, MinSamples - 1},
                   extra \in [Targets -> 0..MaxExtra],
                   positive \in {Num(50), Str(TxtFifty)},
                   filler \in {Num(0), Null, Str(TxtWord)}}
    /\ trained = 0
    /\ models = {}
    /\ EstimateIdle /\ SelectIdle
    /\ ClassifierIdle /\ CleanIdle
    /\ RunIdle /\ FetchIdle /\ LookupIdle /\ FeaturesIdle

\* lines 289-303: one iteration of the loop over the targets
TrainTarget ==
    /\ ref # <<>>
    /\ trained < Len(player_fields)
    /\ \E target \in {player_fields[trained + 1]} :
          models' = IF ValidCount(ref, target) < MinSamples
                    THEN models
                    ELSE models \cup {target}
    /\ trained' = trained + 1
    /\ UNCHANGED ref
    /\ UNCHANGED <<laterVars, classifyVars, cleanVars, runVars, fetchVars, lookupVars, featureVars>>

\* line 303, save_models: a model file is written for every entry of models
SaveModels ==
    /\ ref # <<>>
    /\ trained = Len(player_fields)
    /\ trained' = trained + 1
    /\ UNCHANGED <<ref, models>>
    /\ UNCHANGED <<laterVars, classifyVars, cleanVars, runVars, fetchVars, lookupVars, featureVars>>

NextTrainer == TrainTarget \/ SaveModels

SpecTrainer == InitTrainer /\ [][NextTrainer]_vars

\* the model files are written
Saved == ref # <<>> /\ trained = Len(player_fields) + 1

\* the records of the reference set whose value for t is strictly positive
C16_PositiveRecords(t) ==
    (IF StrictlyPositive(ref.positive) THEN ref.base + ref.extra[t] ELSE 0)
    + (IF ref.filler.k # "null" /\ StrictlyPositive(ref.filler)
       THEN SumOver(ref.extra, Targets \ {t}) ELSE 0)

\* C16: the Trainer produces a ModelEntry for a target exactly when the
\* reference set has at least 10 records whose value for that target is
\* strictly positive, independently of the other targets.
C16_EntryExactlyAtTenPositive ==
    Saved => \A t \in Targets : t \in models <=> C16_PositiveRecords(t) >= 10

\* peak_24h has 10 positive records and an entry, the other two have 9 and none
C16_Witness ==
    /\ Saved
    /\ C16_PositiveRecords("peak_24h") = 10
    /\ C16_PositiveRecords("current_players") = 9
    /\ C16_PositiveRecords("peak_alltime") = 9
    /\ models = {"peak_24h"}

----------------------------------------------------------------------------
(* Specification of the Feature Extractor: the cleaner's and the trainer's *)
(* extraction called on one record while the calendar advances             *)

\* the extractions of one behaviour
MaxCalls == 2
\* the years datetime.now().year advances during one behaviour
MaxYears == 1

TxtCheap == <<"$","0",".","5","0">>

\* the end of the run of digits that starts at position i
DigitRunEnd(t, i) == Greatest({j \in i..Len(t) : \A k \in i..j : IsDigit(t[k])})

\* the end of a match of \d+\.?\d* whose first run of digits ends at e
NumberEnd(t, e) ==
    IF e < Len(t) /\ t[e + 1] = "."
    THEN IF e + 2 <= Len(t) /\ IsDigit(t[e + 2]) THEN DigitRunEnd(t, e + 2) ELSE e + 1
    ELSE e

NumberAt(t, i, e) == ParseDecimal(SubSeq(t, i, NumberEnd(t, e)), FALSE, e - i + 2)

\* float(re.findall(r'\d+\.?\d*', text)[0]), 0.0 when nothing matches
FirstNumber(t, hits) ==
    IF hits = {} THEN NumFloat(0)
    ELSE NumberAt(t, Least(hits), DigitRunEnd(t, Least(hits)))

\* max(0, current_year - release_year), -1 when the text holds no year
AgeAt(year, current_year) ==
    IF year = 0 THEN 0 - 1
    ELSE IF current_year - year > 0 THEN current_year - year ELSE 0

\* x / y for a finite y > 0
FloatDiv(x, y) ==
    IF x.nan \/ x.inf THEN x
    ELSE Float(TRUE, FALSE, FALSE, x.neg, x.num * y.den, x.den * y.num)

\* max(x, 1) for a finite x > 0
MaxOne(x) == IF x.num < x.den THEN NumFloat(1) ELSE x

FeatureVector(age, is_free, price, avg, med, ratio, cp, p24, pa) ==
    [raised |-> FALSE, game_age_years |-> age, is_free |-> is_free,
     price_numeric |-> price, playtime_avg |-> avg, playtime_median |-> med,
     playtime_price_ratio |-> ratio,
     current_players |-> cp, peak_24h |-> p24, peak_alltime |-> pa,
     activity_ratio |-> IF Positive(p24) THEN FloatDiv(cp, p24) ELSE NumFloat(0),
     historical_growth |-> IF Positive(p24) THEN FloatDiv(pa, p24) ELSE NumFloat(0)]

\* the call raised ValueError and returned no vector
NoVector ==
    [FeatureVector(0, 0, NoFloat, NoFloat, NoFloat, NoFloat, NoFloat, NoFloat, NoFloat)
        EXCEPT !.raised = TRUE]

(* the cleaner's extraction, data_cleaner.py lines 74-138; a null cell is the
   NaN of the data frame: it is truthy, and str() of it holds no digit *)

\* lines 87-98
CleanerAge(v, current_year) ==
    IF v.k = "str" /\ v.s \notin {TxtEmpty, TxtNA, TxtComingSoon, TxtTBA}
    THEN AgeAt(YearOf(v.s), current_year)
    ELSE 0 - 1

\* line 102
CleanerIsFree(v) ==
    IF v.k = "str" /\ Lower(v.s) \in {TxtFreeLower, TxtFreeCn} THEN 1 ELSE 0

\* lines 105-112
CleanerPrice(v) ==
    IF v.k = "str" /\ Lower(v.s) \notin {TxtFreeLower, TxtFreeCn, TxtNaLower, TxtEmpty}
    THEN FirstNumber(v.s, {i \in 1..Len(v.s) : IsDigit(v.s[i])})
    ELSE NumFloat(0)

\* lines 115-136
CleanerVector(age, is_free, price, avg, med, cp, p24, pa) ==
    IF ~(avg.ok /\ med.ok /\ cp.ok /\ p24.ok /\ pa.ok) THEN NoVector
    ELSE FeatureVector(age, is_free, price, avg, med,
                       IF Positive(price) THEN FloatDiv(avg, price) ELSE avg,
                       cp, p24, pa)

_extract_features_for_prediction(df_row, current_year) ==
    CleanerVector(CleanerAge(df_row.release_date, current_year),
                  CleanerIsFree(df_row.price), CleanerPrice(df_row.price),
                  FloatOrZero(df_row.playtime_avg), FloatOrZero(df_row.playtime_median),
                  FloatOrZero(df_row.current_players), FloatOrZero(df_row.peak_24h),
                  FloatOrZero(df_row.peak_alltime))

(* the trainer's extraction, train_ml_model.py lines 25-101, for one row *)

\* lines 38-48, calculate_game_age
calculate_game_age(v, current_year) ==
    IF v.k = "null" \/ (v.k = "str" /\ v.s \in {TxtNA, TxtComingSoon, TxtTBA, TxtEmpty})
    THEN 0 - 1
    ELSE AgeAt(YearOf(v.s), current_year)

\* lines 53-55
TrainerIsFree(v) ==
    IF v.k # "null" /\ Lower(v.s) \in {TxtFreeLower, TxtFreeCn} THEN 1 ELSE 0

\* lines 58-68, extract_price
extract_price(v) ==
    IF v.k = "null" \/ Lower(v.s) \in {TxtFreeLower, TxtFreeCn, TxtNaLower, TxtEmpty}
    THEN NumFloat(0)
    ELSE FirstNumber(v.s, {i \in 1..Len(v.s) : IsDigit(v.s[i])})

\* lines 74-99
TrainerVector(age, is_free, price, avg, med, cp, p24, pa) ==
    FeatureVector(age, is_free, price, avg, med,
                  IF Positive(price) THEN FloatDiv(avg, MaxOne(price)) ELSE avg,
                  cp, p24, pa)

extract_features(df_row, current_year) ==
    TrainerVector(calculate_game_age(df_row.release_date, current_year),
                  TrainerIsFree(df_row.price), extract_price(df_row.price),
                  ToNumeric(df_row.playtime_avg), ToNumeric(df_row.playtime_median),
                  ToNumeric(df_row.current_players), ToNumeric(df_row.peak_24h),
                  ToNumeric(df_row.peak_alltime))

\* the records: a release date and a price are null or text
FeatureRows ==
    {Row(date, price, avg, Num(60), cp, p24, Num(200)) :
        date \in {Null, Str(TxtDateOld), Str(TxtNA)},
        price \in {Null, Str(TxtFree), Str(TxtFreeCn), Str(TxtPrice), Str(TxtCheap)},
        avg \in {Num(0), Num(120), Null, Str(TxtWord)},
        cp \in {Num(50), Null},
        p24 \in {Num(0), Num(100)}}

InitFeatures ==
    /\ frow \in FeatureRows
    /\ now = CurrentYear
    /\ fvecs = <<>>
    /\ EstimateIdle /\ SelectIdle
    /\ ClassifierIdle /\ CleanIdle
    /\ RunIdle /\ FetchIdle /\ LookupIdle /\ TrainerIdle

Extraction(by, vec) == [by |-> by, year |-> now, vec |-> vec]

\* one call of the cleaner's _extract_features_for_prediction on the record
ExtractCleaner ==
    /\ frow # <<>>
    /\ Len(fvecs) < MaxCalls
    /\ fvecs' = Append(fvecs, Extraction("cleaner", _extract_features_for_prediction(frow, now)))
    /\ UNCHANGED <<frow, now>>
    /\ UNCHANGED <<laterVars, classifyVars, cleanVars, runVars, fetchVars, lookupVars, trainerVars>>

\* one call of the trainer's extract_features on the record
ExtractTrainer ==
    /\ frow # <<>>
    /\ Len(fvecs) < MaxCalls
    /\ fvecs' = Append(fvecs, Extraction("trainer", extract_features(frow, now)))
    /\ UNCHANGED <<frow, now>>
    /\ UNCHANGED <<laterVars, classifyVars, cleanVars, runVars, fetchVars, lookupVars, trainerVars>>

\* the calendar year of datetime.now() advances
NewYear ==
    /\ frow # <<>>
    /\ now < CurrentYear + MaxYears
    /\ now' = now + 1
    /\ UNCHANGED <<frow, fvecs>>
    /\ UNCHANGED <<laterVars, classifyVars, cleanVars, runVars, fetchVars, lookupVars, trainerVars>>

NextFeatures == ExtractCleaner \/ ExtractTrainer \/ NewYear

SpecFeatures == InitFeatures /\ [][NextFeatures]_vars

\* two floats are the same number (NaN taken as equal to NaN)
SameFloat(x, y) ==
    /\ x.nan = y.nan
    /\ ~x.nan => /\ x.inf = y.inf
                 /\ (x.neg = y.neg \/ (x.num = 0 /\ y.num = 0))
                 /\ x.num * y.den = y.num * x.den

FloatFeatures ==
    {"price_numeric", "playtime_avg", "playtime_median", "playtime_price_ratio",
     "current_players", "peak_24h", "peak_alltime", "activity_ratio", "historical_growth"}

SameVector(a, b) ==
    /\ a.raised = b.raised
    /\ ~a.raised => /\ a.game_age_years = b.game_age_years
                    /\ a.is_free = b.is_free
                    /\ \A f \in FloatFeatures : SameFloat(a[f], b[f])

\* C17: for every record, the vector of the trainer's extract_features equals,
\* feature by feature, the vector of the cleaner's
\* _extract_features_for_prediction computed in the same year.
C17_TrainerEqualsCleaner ==
    \A i, j \in DOMAIN fvecs :
        (fvecs[i].by = "trainer" /\ fvecs[j].by = "cleaner" /\ fvecs[i].year = fvecs[j].year)
            => SameVector(fvecs[i].vec, fvecs[j].vec)

\* C18: in every extracted feature vector playtime_price_ratio is
\* playtime_avg / price_numeric when price_numeric > 0, and playtime_avg
\* when price_numeric is 0.
C18_RatioOfPlaytimeAndPrice ==
    \A i \in DOMAIN fvecs :
        ~fvecs[i].vec.raised =>
            SameFloat(fvecs[i].vec.playtime_price_ratio,
                      IF Positive(fvecs[i].vec.price_numeric)
                      THEN FloatDiv(fvecs[i].vec.playtime_avg, fvecs[i].vec.price_numeric)
                      ELSE fvecs[i].vec.playtime_avg)

\* C19: two calls of the cleaner's extraction on an identical record, at any
\* two points of a run, yield identical feature vectors.
C19_SameRecordSameVector ==
    \A i, j \in DOMAIN fvecs :
        (fvecs[i].by = "cleaner" /\ fvecs[j].by = "cleaner")
            => SameVector(fvecs[i].vec, fvecs[j].vec)

----------------------------------------------------------------------------
(* Specification of a whole run of clean_data on a readable input file *)

\* a variant that does not require the AppID column
missing_columns_of_fields(cols) == FieldTypes \ cols

\* line 600: the required columns that df.columns lacks
missing_columns(cols) == required_columns \ cols

RECURSIVE RowsOfLen(_)
RowsOfLen(n) ==
    IF n = 0 THEN {<<>>}
    ELSE {Append(q, row) : q \in RowsOfLen(n - 1), row \in BatchRows}

\* the input files: up to MaxBatch records; every required column, all but
\* one of them, or none
InputFiles == UNION {RowsOfLen(n) : n \in 0..MaxBatch}
InputColumns ==
    {required_columns, {}} \cup {required_columns \ {c} : c \in required_columns}

InitRun ==
    /\ EstimateIdle /\ SelectIdle
    /\ ClassifierIdle
    /\ FetchIdle /\ LookupIdle /\ TrainerIdle /\ FeaturesIdle
    /\ pc = "start"
    /\ ml_models \in {{}, Targets}
    /\ pending \in InputFiles
    /\ nrows = Len(pending)
    /\ columns \in InputColumns
    /\ run = 1
    /\ has_missing = <<>>
    /\ df = <<>>
    /\ dropped = <<>>
    /\ completed = 0
    /\ last = NoRecord
    /\ events = <<>>

\* lines 598-603: the run returns when a required column is missing
CheckColumns ==
    /\ pc = "start"
    /\ pc' = IF missing_columns(columns) # {} THEN "aborted" ELSE "analysis"
    /\ UNCHANGED <<ml_models, nrows, df, dropped, completed, last, events>>
    /\ UNCHANGED <<laterVars, classifyVars, runVars, fetchVars, lookupVars, trainerVars, featureVars>>

\* lines 605-621: every record is classified, then the share of the records
\* with a missing field is printed; the division by len(df) raises
\* ZeroDivisionError for a file without records
Analyse ==
    /\ pc = "analysis"
    /\ has_missing' = [i \in 1..nrows |-> MissingOf(pending[i]) # <<>>]
    /\ pc' = IF nrows = 0 THEN "crashed" ELSE "loop"
    /\ UNCHANGED <<ml_models, nrows, df, dropped, completed, last, events>>
    /\ UNCHANGED <<columns, run, pending>>
    /\ UNCHANGED <<laterVars, classifyVars, fetchVars, lookupVars, trainerVars, featureVars>>

\* the row that iterrows() gives next
FileRows == {pending[Len(df) + 1]}

NextRun == CheckColumns \/ Analyse \/ ProcessRecord(FileRows, FALSE) \/ Finish

SpecRun == InitRun /\ [][NextRun]_vars

\* no record was classified or processed, no lookup was issued
NothingProcessed ==
    /\ has_missing = <<>>
    /\ df = <<>>
    /\ dropped = <<>>
    /\ completed = 0
    /\ last = NoRecord
    /\ events = <<>>

\* C20: when the input lacks a required column, clean_data aborts before
\* processing starts (no record classified, no lookup issued, no output
\* written); no condition of a record aborts the run: the run stops early
\* only for a missing column or, by the division of line 617, for a file
\* without any record.
C20_OnlyMissingColumnsAbort ==
    /\ (columns # required_columns /\ pc # "start") => (pc = "aborted" /\ NothingProcessed)
    /\ pc = "aborted" => columns # required_columns
    /\ pc = "crashed" => (nrows = 0 /\ df = <<>>)
    /\ (pc = "loop" /\ Len(df) = nrows) => ENABLED Finish

\* a file with records but without the AppID column: the run has returned
C20_Witness ==
    /\ pc = "aborted"
    /\ columns = required_columns \ {"AppID"}
    /\ nrows > 0
    /\ NothingProcessed

----------------------------------------------------------------------------
(* Specification of the estimators: one call of estimate_player_fields, the *)
(* model path line by line                                                  *)

\* train_ml_model.py lines 119-133: the feature_cols stored with each model
feature_cols(target) ==
    IF target = "current_players"
    THEN <<"game_age_years", "is_free", "price_numeric", "playtime_avg", "playtime_median",
           "playtime_price_ratio", "peak_24h", "peak_alltime", "historical_growth">>
    ELSE IF target = "peak_24h"
    THEN <<"game_age_years", "is_free", "price_numeric", "playtime_avg", "playtime_median",
           "playtime_price_ratio", "current_players", "peak_alltime">>
    ELSE <<"game_age_years", "is_free", "price_numeric", "playtime_avg", "playtime_median",
           "playtime_price_ratio", "current_players", "peak_24h", "activity_ratio">>

\* lines 381, 401, 423: X, the values of features_dict for the model's columns
FeatureRow(fd, cols) == [c \in SeqSet(cols) |-> fd[c]]

\* lines 416-417: before the estimate of peak_alltime, activity_ratio is
\* computed again when peak_24h > 0
Recomputed(fd, target) ==
    IF target = "peak_alltime" /\ Positive(fd.peak_24h)
    THEN [fd EXCEPT !.activity_ratio = FloatDiv(fd.current_players, fd.peak_24h)]
    ELSE fd

\* lines 386-388: the prediction is kept when max(0, int(prediction)) > 0
Supplies(a) == ~a.raises /\ a.value > 0

\* lines 390 and 408: a kept prediction of peak_24h or current_players is
\* written to features_dict
AfterPrediction(fd, target, a) ==
    IF Supplies(a) /\ target # "peak_alltime"
    THEN [fd EXCEPT ![target] = NumFloat(a.value)]
    ELSE fd

DictPut(d, k, v) == [x \in DOMAIN d \cup {k} |-> IF x = k THEN v ELSE d[x]]

\* lines 389, 407, 429
AfterEstimate(d, target, a) == IF Supplies(a) THEN DictPut(d, target, Num(a.value)) ELSE d

\* a variant in which an exception of predict leaves estimate_player_fields
RaisedOrNextStops(a, next) == IF a.raises THEN "raised" ELSE next

\* the except clauses of lines 391, 409 and 430: the next block is reached
\* whatever the prediction did
RaisedOrNext(a, next) == next

NextTarget(target) ==
    IF target = "peak_24h" THEN "current_players"
    ELSE IF target = "current_players" THEN "peak_alltime"
    ELSE "done"

\* int(model.predict(X)[0]) of a loaded model, or an exception
EstimateAnswers == PredictAnswers \cup {Predicts(0 - 1)}

Prediction(target, X, a) == [target |-> target, X |-> X, answer |-> a]

\* the rows that clean_data passes: some but not all of the cluster missing
EstimateRows ==
    {r \in {Row(date, Str(TxtPrice), Num(600), Num(400), cp, p24, pa) :
               date \in {Null, Str(TxtDateNew), Str(TxtDateMid), Str(TxtDateOld)},
               cp \in {Num(0), Null, Str(TxtWord), Num(1), Num(50), Str(TxtHalf)},
               p24 \in {Num(0), Null, Num(1), Num(50), Str(TxtHalf)},
               pa \in {Num(0), Null, Num(1), Num(50)}} :
        /\ \E u \in Targets : is_field_missing(r[u], u)
        /\ \E u \in Targets : ~is_field_missing(r[u], u)}

InitEstimate ==
    /\ est_row \in EstimateRows
    /\ est_missing = Filter(MissingOf(est_row), Targets)
    /\ est_pc = "start"
    /\ features_dict = <<>>
    /\ est_data = EmptyDict
    /\ predictions = <<>>
    /\ SelectIdle
    /\ ClassifierIdle
    /\ RunIdle /\ FetchIdle /\ LookupIdle /\ TrainerIdle /\ FeaturesIdle
    /\ pc = "idle"
    /\ ml_models \in SUBSET Targets
    /\ nrows = 0
    /\ df = <<>>
    /\ dropped = <<>>
    /\ completed = 0
    /\ last = NoRecord
    /\ events = <<>>

EstimateFrame ==
    /\ UNCHANGED <<est_row, est_missing>>
    /\ UNCHANGED <<selectVars, classifyVars, cleanVars>>
    /\ UNCHANGED <<runVars, fetchVars, lookupVars, trainerVars, featureVars>>

\* lines 364-365: without any model the call is _simple_estimate
SimpleEstimate ==
    /\ est_pc = "start"
    /\ ml_models = {}
    /\ \E s \in {simple_estimate(est_row, est_missing)} :
          /\ est_data' = s.data
          /\ est_pc' = IF s.raised THEN "raised" ELSE "done"
    /\ UNCHANGED <<features_dict, predictions>>
    /\ EstimateFrame

\* line 368: the features are extracted; an exception leaves the call
ExtractFeatures ==
    /\ est_pc = "start"
    /\ ml_models # {}
    /\ \E fd \in {_extract_features_for_prediction(est_row, CurrentYear)} :
          /\ features_dict' = IF fd.raised THEN features_dict ELSE fd
          /\ est_pc' = IF fd.raised THEN "raised" ELSE "peak_24h"
    /\ UNCHANGED <<est_data, predictions>>
    /\ EstimateFrame

\* one of the three blocks of lines 374-431
PredictTarget(target) ==
    /\ est_pc = target
    /\ IF InSeq(target, est_missing) /\ target \in ml_models
       THEN \E a \in EstimateAnswers : \E fd \in {Recomputed(features_dict, target)} :
               /\ predictions' = Append(predictions,
                      Prediction(target, FeatureRow(fd, feature_cols(target)), a))
               /\ est_data' = AfterEstimate(est_data, target, a)
               /\ features_dict' = AfterPrediction(fd, target, a)
               /\ est_pc' = RaisedOrNext(a, NextTarget(target))
       ELSE /\ est_pc' = NextTarget(target)
            /\ UNCHANGED <<features_dict, est_data, predictions>>
    /\ EstimateFrame

PredictPeak24h == PredictTarget("peak_24h")
PredictCurrentPlayers == PredictTarget("current_players")
PredictPeakAlltime == PredictTarget("peak_alltime")

NextEstimate ==
    \/ SimpleEstimate
    \/ ExtractFeatures
    \/ PredictPeak24h
    \/ PredictCurrentPlayers
    \/ PredictPeakAlltime

SpecEstimate == InitEstimate /\ [][NextEstimate]_vars

\* the call was _simple_estimate and it returned
SimpleReturned == est_pc = "done" /\ ml_models = {}

C21_Age == SimpleGameAge(est_row.release_date)
C21_Decay == IF C21_Age <= 2 THEN 8 ELSE IF C21_Age <= 5 THEN 5 ELSE 2
C21_Alltime == IF C21_Age <= 2 THEN 13 ELSE IF C21_Age <= 5 THEN 20 ELSE 35
C21_Value(target) == ToFloat(est_row[target])
C21_Available(target) == ~InSeq(target, est_missing) /\ Positive(C21_Value(target))
C21_Factor(target) == IF target = "current_players" THEN C21_Decay ELSE C21_Alltime

\* the peak_24h that the two products use: observed, or the one just derived
C21_Peak24h ==
    IF "peak_24h" \in DOMAIN est_data THEN NumFloat(est_data["peak_24h"].n)
    ELSE C21_Value("peak_24h")
C21_Peak24hKnown == "peak_24h" \in DOMAIN est_data \/ C21_Available("peak_24h")

\* q is x / (tenths / 10), p is x * (tenths / 10): exactly, or truncated
ExactQuotient(q, x, tenths) == q * tenths * x.den = x.num * 10
ExactProduct(p, x, tenths) == p * 10 * x.den = x.num * tenths
TruncatedQuotient(q, x, tenths) ==
    q * tenths * x.den <= x.num * 10 /\ x.num * 10 < (q + 1) * tenths * x.den
TruncatedProduct(p, x, tenths) ==
    p * 10 * x.den <= x.num * tenths /\ x.num * tenths < (p + 1) * 10 * x.den

\* the source of a missing peak_24h: current_players when available, else
\* peak_alltime, else none
C21_Source ==
    IF C21_Available("current_players") THEN "current_players"
    ELSE IF C21_Available("peak_alltime") THEN "peak_alltime"
    ELSE "none"

----------------------------------------------------------------------------
(* Further claims about clean_data *)

\* the unresolved list at line 700: the fields still missing after external
\* completion, less the fields that estimation supplied
C22_Unresolved ==
    Filter(last.still_external, FieldTypes \ DOMAIN last.estimated)

\* the iteration ran to line 700: nothing raised, and salvage rule A (line
\* 657) did not end it
C22_ReachedRuleB ==
    Iterated /\ last.missing_fields # <<>> /\ last.raised = "no" /\ last.salvaged # "A"

\* C22: after external completion and estimation, when price is the only
\* field still unresolved the price is set to the free sentinel and the
\* record is kept, whatever number of fields was missing at first; when
\* another field is unresolved together with price the record is dropped and
\* its price is left as it was.
C22_PriceOnlyUnresolvedKept ==
    C22_ReachedRuleB =>
        /\ C22_Unresolved = <<"price">> =>
              /\ last.salvaged = "B"
              /\ df[last.idx]["price"] = Str(TxtFree)
              /\ Kept(last.idx)
        /\ (InSeq("price", C22_Unresolved) /\ C22_Unresolved # <<"price">>) =>
              /\ last.salvaged = "no"
              /\ df[last.idx]["price"] = last.after_fetch["price"]
              /\ Dropped(last.idx)

\* price and a cluster field were missing; the cluster field was resolved,
\* the price was not: the record is kept with price Free
C22_Witness ==
    /\ C22_ReachedRuleB
    /\ Len(last.missing_fields) >= 2
    /\ \E u \in Targets : InSeq(u, last.missing_fields)
    /\ C22_Unresolved = <<"price">>
    /\ last.salvaged = "B"
    /\ df[last.idx]["price"] = Str(TxtFree)
    /\ Kept(last.idx)

\* C23: during a clean_data run a pause occurs between any two consecutive
\* external requests, within one record's completion (a lookup issued from
\* inside another lookup included) and across consecutive records.
C23_PauseBetweenRequests ==
    \A i \in 1..(Len(events) - 1) :
        events[i].kind = "request" => events[i + 1].kind = "sleep"

----------------------------------------------------------------------------
(* Specification of train_model: the candidates are scored, the best is chosen *)

\* a mean absolute error is one of 0 .. MaxMae
MaxMae == 2

\* line 168: the candidates, in the order of the dict `models`
Candidates == <<"RandomForest", "GradientBoosting", "LinearRegression">>

Scored(name, test_mae, cv_mae) == [name |-> name, test_mae |-> test_mae, cv_mae |-> cv_mae]

\* the first index at which key is least: min(..., key=...) over a dict
\* returns the first of several least keys, in the order of insertion
FirstLeast(key) ==
    Least({i \in DOMAIN key : \A j \in DOMAIN key : key[i] <= key[j]})

\* a variant of line 228 that chooses by the cross-validated error
BestByCv(scores) == scores[FirstLeast([i \in DOMAIN scores |-> scores[i].cv_mae])].name

\* line 228: min(results.keys(), key=lambda k: results[k]['test_mae'])
Best(scores) == scores[FirstLeast([i \in DOMAIN scores |-> scores[i].test_mae])].name

InitSelect ==
    /\ results = <<>>
    /\ best_model_name = <<>>
    /\ EstimateIdle
    /\ ClassifierIdle /\ CleanIdle
    /\ RunIdle /\ FetchIdle /\ LookupIdle /\ TrainerIdle /\ FeaturesIdle

SelectFrame ==
    /\ UNCHANGED <<estimateVars, classifyVars, cleanVars>>
    /\ UNCHANGED <<runVars, fetchVars, lookupVars, trainerVars, featureVars>>

\* lines 190-220: one iteration of the loop over the candidates
ScoreCandidate ==
    /\ best_model_name = <<>>
    /\ Len(results) < Len(Candidates)
    /\ \E test_mae \in 0..MaxMae : \E cv_mae \in 0..MaxMae :
          results' = Append(results, Scored(Candidates[Len(results) + 1], test_mae, cv_mae))
    /\ UNCHANGED best_model_name
    /\ SelectFrame

\* lines 228-229
ChooseBest ==
    /\ best_model_name = <<>>
    /\ Len(results) = Len(Candidates)
    /\ best_model_name' = <<Best(results)>>
    /\ UNCHANGED results
    /\ SelectFrame

NextSelect == ScoreCandidate \/ ChooseBest

SpecSelect == InitSelect /\ [][NextSelect]_vars

Chosen == best_model_name # <<>>
ChosenIndex == CHOOSE i \in DOMAIN results : results[i].name = best_model_name[1]

\* C24: the chosen candidate has a held-out MAE less than or equal to that of
\* every other candidate; among candidates of equal held-out MAE the chosen
\* one is the first in the order RandomForest, GradientBoosting,
\* LinearRegression; the cross-validated MAE has no influence: the choice is
\* the one that the held-out MAEs alone determine.
C24_LowestHeldOutMaeFirstInOrder ==
    Chosen =>
        /\ \A j \in DOMAIN results : results[ChosenIndex].test_mae <= results[j].test_mae
        /\ \A j \in DOMAIN results :
              results[j].test_mae = results[ChosenIndex].test_mae => ChosenIndex <= j
        /\ Candidates[ChosenIndex] = best_model_name[1]

\* RandomForest and GradientBoosting tie on the held-out MAE, GradientBoosting
\* and LinearRegression have the lower cross-validated MAE: RandomForest is chosen
C24_Witness ==
    /\ Chosen
    /\ results[1].test_mae = 1 /\ results[2].test_mae = 1 /\ results[3].test_mae = 2
    /\ results[1].cv_mae = 2 /\ results[2].cv_mae = 0 /\ results[3].cv_mae = 0
    /\ best_model_name = <<"RandomForest">>

----------------------------------------------------------------------------
(* Further claims about the cleaner's feature extraction *)

NumericFeatures ==
    {"playtime_avg", "playtime_median", "current_players", "peak_24h", "peak_alltime"}

\* C25: every call of _extract_features_for_prediction returns normally, and
\* the feature of a play-time or player-count field that is null or holds
\* unparseable text is 0.0, never NaN.
C25_ExtractionTotal ==
    \A i \in DOMAIN fvecs :
        fvecs[i].by = "cleaner" =>
            /\ ~fvecs[i].vec.raised
            /\ \A f \in NumericFeatures :
                  (frow[f] = Null \/ ~ToFloat(frow[f]).ok) =>
                      /\ ~fvecs[i].vec[f].nan
                      /\ SameFloat(fvecs[i].vec[f], NumFloat(0))

----------------------------------------------------------------------------
(* Further claims about one iteration of clean_data *)

\* the fields of the latest record that the iteration has changed
LastChanged == {f \in DOMAIN last.row : df[last.idx][f] # last.row[f]}

\* C26: an iteration changes only fields that it classified missing at its
\* start: fetch_missing_data returns only fields among the missing ones, the
\* estimators return only missing cluster fields, a salvage writes only a
\* missing price; a record without a missing field causes no request, is left
\* as it was and is kept.
C26_OnlyMissingFieldsChange ==
    Iterated =>
        /\ LastChanged \subseteq SeqSet(last.missing_fields)
        /\ DOMAIN last.fetched \subseteq SeqSet(last.missing_fields)
        /\ DOMAIN last.estimated \subseteq (SeqSet(last.missing_fields) \cap Targets)
        /\ last.salvaged # "no" =>
              /\ InSeq("price", last.missing_fields)
              /\ df[last.idx]["price"] = Str(TxtFree)
        /\ last.missing_fields = <<>> =>
              /\ last.calls = <<>>
              /\ df[last.idx] = last.row
              /\ Kept(last.idx)

\* a record with present and missing fields: a lookup supplied one missing
\* field, an estimator another, and the record is kept
C26_Witness ==
    /\ Iterated /\ Kept(last.idx)
    /\ DOMAIN last.fetched # {}
    /\ DOMAIN last.estimated # {}
    /\ LastChanged = (DOMAIN last.fetched) \cup (DOMAIN last.estimated)
    /\ SeqSet(last.missing_fields) # FieldTypes

\* the number of records without a missing field, in a batch of one record
IntactRecords == IF Iterated /\ last.missing_fields = <<>> THEN 1 ELSE 0

\* C27: after clean_data has processed the batch, every index of the drop
\* list occurs in it once, and the number of completed records, the number of
\* entries of the drop list and the number of records without a missing field
\* add up to the number of records; the output holds the records that are
\* not in the drop list.
C27_DroppedOnceCountsAddUp ==
    pc = "done" =>
        /\ \A i, j \in DOMAIN dropped : dropped[i] = dropped[j] => i = j
        /\ completed + Len(dropped) + IntactRecords = nrows
        /\ Len(df_cleaned) + Cardinality(SeqSet(dropped)) = nrows

----------------------------------------------------------------------------
(* Further claims about estimate_player_fields *)

\* the call has returned; the present cluster fields hold positive integers
ReturnedForCounts ==
    /\ est_pc = "done"
    /\ \A u \in Targets \ SeqSet(est_missing) : est_row[u].k = "num" /\ est_row[u].n > 0

\* C28: every value that estimate_player_fields returns, from the models or
\* from _simple_estimate, is an integer greater than 0, so that a value
\* written for a cluster field is never classified missing.
C28_EstimatesStrictlyPositive ==
    ReturnedForCounts =>
        \A u \in DOMAIN est_data :
            /\ est_data[u].k = "num" /\ est_data[u].n > 0
            /\ ~is_field_missing(est_data[u], u)

\* the place of a target in the order peak_24h, current_players, peak_alltime
TargetRank(target) ==
    IF target = "peak_24h" THEN 1 ELSE IF target = "current_players" THEN 2 ELSE 3

\* x / y as the extraction derives it: 0 unless y > 0
RatioOrZero(x, y) == IF Positive(y) THEN FloatDiv(x, y) ELSE NumFloat(0)

\* the cluster cells of the record hold integers
IntegerCounts == \A u \in Targets : est_row[u].k = "num"

\* C29: the predictions are made in the order peak_24h, current_players,
\* peak_alltime; the vector of each prediction holds the values predicted
\* before it, and its activity_ratio and historical_growth are
\* current_players / peak_24h and peak_alltime / peak_24h of the values that
\* the feature dictionary holds when the prediction is made.
C29_VectorSelfConsistent ==
    IntegerCounts =>
        \A i \in DOMAIN predictions :
            /\ \A j \in DOMAIN predictions :
                  j < i =>
                     /\ TargetRank(predictions[j].target) < TargetRank(predictions[i].target)
                     /\ (Supplies(predictions[j].answer)
                           /\ predictions[j].target \in DOMAIN predictions[i].X) =>
                          predictions[i].X[predictions[j].target]
                              = NumFloat(predictions[j].answer.value)
            /\ "activity_ratio" \in DOMAIN predictions[i].X =>
                  SameFloat(predictions[i].X.activity_ratio,
                            RatioOrZero(predictions[i].X.current_players,
                                        predictions[i].X.peak_24h))
            /\ "historical_growth" \in DOMAIN predictions[i].X =>
                  SameFloat(predictions[i].X.historical_growth,
                            RatioOrZero(predictions[i].X.peak_alltime,
                                        predictions[i].X.peak_24h))

\* the targets for which a prediction was attempted
Attempted == {predictions[i].target : i \in DOMAIN predictions}

\* the block of lines 374-431 that the call is at: 4 once it has returned
BlockReached == IF est_pc = "done" THEN 4 ELSE TargetRank(est_pc)

\* C30: a prediction that raises or yields a value that is not greater than 0
\* supplies no value for its target, the predictions for the remaining
\* missing targets with a model are attempted all the same, and no exception
\* of a prediction leaves estimate_player_fields.
C30_FailedPredictionIsSkipped ==
    /\ \A i \in DOMAIN predictions :
          ~Supplies(predictions[i].answer) => predictions[i].target \notin DOMAIN est_data
    /\ predictions # <<>> => est_pc # "raised"
    /\ \A i \in DOMAIN predictions :
          \A u \in Targets \cap ml_models \cap SeqSet(est_missing) :
              (TargetRank(predictions[i].target) < TargetRank(u)
                 /\ TargetRank(u) < BlockReached) => u \in Attempted

\* the prediction of current_players raised, the one of peak_alltime after it
\* was made and supplied a value
C30_Witness ==
    /\ est_pc = "done"
    /\ Len(predictions) = 2
    /\ predictions[1].target = "current_players" /\ predictions[1].answer.raises
    /\ predictions[2].target = "peak_alltime" /\ Supplies(predictions[2].answer)
    /\ DOMAIN est_data = {"peak_alltime"}

====
